---- MODULE Spec2Model ----
(***************************************************************************)
(* Model of the mobile agent's session controller and four-tier decision   *)
(* engine (MobileAgent), the LLM response parsers (BaseLLMProvider) and    *)
(* the action dispatcher.                                                  *)
(*                                                                         *)
(* Confidences are integers in hundredths (0.7 is 70).  A JavaScript       *)
(* `undefined` is "undefined" for strings, NoConfidence for numbers, <<>>  *)
(* for an optional object (an object o that is present is <<o>>).          *)
(***************************************************************************)
EXTENDS Integers, Sequences, FiniteSets, TLC

\* ---------------------------------------------------------------- bounds
MaxSteps == 1           \* executes started per session
MaxVerifications == 1   \* asserts started per session
MaxHistory == 2         \* executes, and asserts, per session where the histories are followed
MaxTimeoutMs == 2       \* largest timeoutMs handed to waitForCondition (ticks)
MaxPollMs == 1          \* largest pollMs handed to waitForCondition (ticks)
MaxSettleTimeoutMs == 4 \* largest timeoutMs handed to waitForUiSettle (ticks)
MaxSettlePollMs == 2    \* largest pollMs handed to waitForUiSettle (ticks)
MaxReadMs == 1          \* longest getPageSource of a UI-settle sample (ticks)
MinGridSize == 5        \* smallest gridSize handed to overlayGridLines
MaxGridSize == 20       \* largest gridSize handed to overlayGridLines

\* ------------------------------------------------------- program constants
DefaultConfidenceThreshold == 70
DefaultMinimumConfidence == 50
DefaultTaggingConfidence == 80
DefaultGridConfidence == 70
DefaultPureVisionConfidence == 60
ParseErrorConfidence == 0

NoConfidence == -1
Undefined == "undefined"

\* ActionType enum, plus the parsers' "error" action
CLICK == "click"
ActionTypes ==
  {"click", "long_press", "swipe", "scroll", "type_text", "tap", "double_tap", "pinch", "zoom"}

HIERARCHY == "hierarchy"
VISION_TAGGING == "vision-tagging"
GRID_OVERLAY == "grid-overlay"
PURE_VISION == "pure-vision"

PASSED == "passed"
FAILED == "failed"
ERROR == "error"

\* error messages
ErrNotStarted == "Session not started. Call startSession() first."
ErrTransport == "device: transport error"
ErrLLM == "llm: request failed"
ErrUnsupported == "Unsupported action type"
ErrNoTarget == "No element or coordinates"
ErrNoBounds == "Element has no bounds"
ErrLowConfidence == "Pure vision confidence too low"
ErrNoTagged == "Tagged screenshot not available for vision-based approach"
ErrNoGrid == "Grid overlay screenshot not available"

\* ------------------------------------------------------------ configuration
Tri == {"undefined", "true", "false"}

\* x !== undefined ? x : d      (x a tri-state, d a boolean)
OrDefault(x, d) == IF x = "undefined" THEN d ELSE x = "true"

\* x || false
OrFalse(x) == x = "true"

\* n || d     (0 and undefined are falsy)
NumOr(n, d) == IF n = NoConfidence \/ n = 0 THEN d ELSE n

\* The options handed to the constructor (MobileAgentConfig, the part the
\* vision set-up reads).
Configs ==
  [ enableVisionFallback : Tri,
    enabled : Tri,
    fallbackOnElementNotFound : {"undefined", "false"},
    fallbackOnLowConfidence : {"undefined", "false"},
    alwaysUseVision : {"undefined", "true"},
    pureVisionOnly : {"undefined", "true"},
    pureVisionEnabled : {"undefined", "false"},
    confidenceThreshold : {NoConfidence},
    minimumConfidence : {NoConfidence} ]

\* the configurations of the session specification: the defaults, vision
\* switched off, pure vision only
SessionConfigs ==
  {c \in Configs :
     /\ c.enableVisionFallback = "undefined"
     /\ c.enabled \in {"undefined", "false"}
     /\ c.fallbackOnElementNotFound = "undefined"
     /\ c.fallbackOnLowConfidence = "undefined"
     /\ c.alwaysUseVision = "undefined"
     /\ c.pureVisionEnabled = "undefined"}

\* a toggle that reads enableVisionFallback alone
VisionEnabledFromFallbackOnly(c) == OrDefault(c.enableVisionFallback, TRUE)

\* constructor: visionEnabled
VisionEnabled(c) ==
  IF c.enabled # "undefined" THEN c.enabled = "true"
  ELSE OrDefault(c.enableVisionFallback, TRUE)

\* constructor: this.visionConfig
Constructor(c) ==
  [ enabled |-> VisionEnabled(c),
    fallbackOnElementNotFound |-> OrDefault(c.fallbackOnElementNotFound, TRUE),
    fallbackOnLowConfidence |-> OrDefault(c.fallbackOnLowConfidence, TRUE),
    confidenceThreshold |-> NumOr(c.confidenceThreshold, DefaultConfidenceThreshold),
    alwaysUseVision |-> OrFalse(c.alwaysUseVision),
    pureVisionOnly |-> OrFalse(c.pureVisionOnly),
    pureVisionEnabled |-> OrDefault(c.pureVisionEnabled, TRUE),
    minimumConfidence |-> NumOr(c.minimumConfidence, DefaultMinimumConfidence) ]

\* ------------------------------------------------------------- the device
\* The screens the device can show; a snapshot sees one of them.  Element
\* ids are the traversal indices "1", "2", ... that parseUIHierarchy assigns.
Screens == {"login", "home"}

NoBounds == <<>>

ElementsOf(screen) ==
  IF screen = "login"
  THEN << [elementId |-> "1", bounds |-> NoBounds, clickable |-> FALSE],
          [elementId |-> "2", bounds |-> <<100, 200, 300, 260>>, clickable |-> TRUE],
          [elementId |-> "3", bounds |-> <<10, 20, 31, 41>>, clickable |-> TRUE] >>
  ELSE << [elementId |-> "1", bounds |-> NoBounds, clickable |-> FALSE],
          [elementId |-> "2", bounds |-> NoBounds, clickable |-> TRUE] >>

WindowWidth == 390
WindowHeight == 844

\* elements.find((e) => e.elementId === id): the first match, as an option
Find(elements, id) ==
  LET hits == {i \in 1..Len(elements) : elements[i].elementId = id}
  IN IF hits = {} THEN <<>>
     ELSE <<elements[CHOOSE i \in hits : \A j \in hits : i <= j]>>

\* UIObserver.getElementCenter, as an option
GetElementCenter(element) ==
  IF element.bounds = NoBounds THEN <<>>
  ELSE << [x |-> (element.bounds[1] + element.bounds[3]) \div 2,
           y |-> (element.bounds[2] + element.bounds[4]) \div 2] >>

\* overlayNumericTags: the mapping tag id -> element, tag ids 1..n in
\* traversal order over the clickable elements that have bounds
TagMapping(elements) ==
  SelectSeq(elements, LAMBDA e : e.clickable /\ e.bounds # NoBounds)

\* ------------------------------------------------------------ LLM responses
\* What one LLM call can do: raise (HTTP error), answer text that
\* parseJsonLoose rejects ("garbage"), or answer a JSON object with some of
\* the keys the prompts ask for.  A missing key is "undefined" / NoConfidence
\* / 0 (tag_id) / <<>> (location).
RespActions == {"click", "undefined"}
RespElementIds == {"undefined", "2", "9"}
RespConfidences == {NoConfidence, 40, 95}
RespTagIds == {0, 2, 7}
RespGridPositions == {"undefined", "E5"}
RespLocations == {<<>>, <<[x_percent |-> 50, y_percent |-> 85]>>}

Resp(kind, a, e, t, g, l, c, p) ==
  [kind |-> kind, action |-> a, element_id |-> e, tag_id |-> t,
   grid_position |-> g, location |-> l, confidence |-> c, passed |-> p]

RaiseResp == Resp("raise", "undefined", "undefined", 0, "undefined", <<>>, NoConfidence, FALSE)
GarbageResp == Resp("garbage", "undefined", "undefined", 0, "undefined", <<>>, NoConfidence, FALSE)

Tier1Responses ==
  {RaiseResp, GarbageResp} \cup
  {Resp("json", a, e, 0, "undefined", <<>>, c, FALSE) :
     a \in RespActions, e \in RespElementIds, c \in RespConfidences}

Tier2Responses ==
  {RaiseResp, GarbageResp} \cup
  {Resp("json", a, "undefined", t, "undefined", <<>>, c, FALSE) :
     a \in RespActions, t \in RespTagIds, c \in RespConfidences}

Tier3Responses ==
  {RaiseResp, GarbageResp} \cup
  {Resp("json", a, "undefined", 0, g, <<>>, c, FALSE) :
     a \in RespActions, g \in RespGridPositions, c \in RespConfidences}

Tier4Responses ==
  {RaiseResp, GarbageResp} \cup
  {Resp("json", a, "undefined", 0, "undefined", l, c, FALSE) :
     a \in RespActions, l \in RespLocations, c \in RespConfidences}

VerifyResponses ==
  {RaiseResp, GarbageResp} \cup
  {Resp("json", "undefined", "undefined", 0, "undefined", <<>>, NoConfidence, p) :
     p \in BOOLEAN}

\* ------------------------------------------------------------ the parsers
Decision(a, e, xy, c, m) ==
  [action |-> a, elementId |-> e, coordinates |-> xy, confidence |-> c, method |-> m]

ErrorDecision(m) == Decision("error", Undefined, <<>>, ParseErrorConfidence, m)

\* parsed.action || "error"
ActionOrError(a) == IF a = "undefined" THEN "error" ELSE a

\* a parser that fills a missing confidence with 0
GenerateActionConfidenceOrZero(resp) ==
  IF resp.kind = "json"
  THEN Decision(ActionOrError(resp.action), resp.element_id, <<>>,
                NumOr(resp.confidence, ParseErrorConfidence), HIERARCHY)
  ELSE ErrorDecision(HIERARCHY)

\* BaseLLMProvider.generateAction, after the query returned
GenerateAction(resp) ==
  IF resp.kind = "json"
  THEN Decision(ActionOrError(resp.action), resp.element_id, <<>>, resp.confidence, HIERARCHY)
  ELSE ErrorDecision(HIERARCHY)

\* a parser that takes the first tagged element whatever tag the answer names
GenerateActionWithVisionTaggingFirstTag(tagMapping, resp) ==
  IF resp.kind = "json" /\ resp.tag_id \in 1..Len(tagMapping)
  THEN LET targetElement == tagMapping[1]
       IN Decision(ActionOrError(resp.action), targetElement.elementId,
                   GetElementCenter(targetElement),
                   NumOr(resp.confidence, DefaultTaggingConfidence), VISION_TAGGING)
  ELSE ErrorDecision(VISION_TAGGING)

\* BaseLLMProvider.generateActionWithVisionTagging, after the query returned
GenerateActionWithVisionTagging(tagMapping, resp) ==
  IF resp.kind = "json" /\ resp.tag_id \in 1..Len(tagMapping)
  THEN LET targetElement == tagMapping[resp.tag_id]
       IN Decision(ActionOrError(resp.action), targetElement.elementId,
                   GetElementCenter(targetElement),
                   NumOr(resp.confidence, DefaultTaggingConfidence), VISION_TAGGING)
  ELSE ErrorDecision(VISION_TAGGING)

\* overlayGridLines: the logical centre of cell (col, row), 0-based, of an
\* N x N grid drawn on an actualW x actualH screenshot of a
\* logicalW x logicalH window
GridCoord(col, row, N, actualW, actualH, logicalW, logicalH) ==
  LET actualCenterX == ((2 * col + 1) * actualW) \div (2 * N)
      actualCenterY == ((2 * row + 1) * actualH) \div (2 * N)
  IN [x |-> (actualCenterX * logicalW) \div actualW,
      y |-> (actualCenterY * logicalH) \div actualH]

ScreenshotWidth == 1284
ScreenshotHeight == 2778
DefaultGridSize == 10

\* gridMap.get(label) of the grid snapshot, as an option
GridMapGet(label) ==
  IF label = "E5"
  THEN <<GridCoord(4, 4, DefaultGridSize, ScreenshotWidth, ScreenshotHeight,
                   WindowWidth, WindowHeight)>>
  ELSE <<>>

\* BaseLLMProvider.generateActionWithGridOverlay, after the query returned
GenerateActionWithGridOverlay(resp) ==
  IF resp.kind = "json" /\ GridMapGet(resp.grid_position) # <<>>
  THEN Decision(ActionOrError(resp.action), Undefined, GridMapGet(resp.grid_position),
                NumOr(resp.confidence, DefaultGridConfidence), GRID_OVERLAY)
  ELSE ErrorDecision(GRID_OVERLAY)

\* floor(log2(num / den)), num and den positive
RECURSIVE FloorLog2(_, _)
FloorLog2(num, den) ==
  IF num >= 2 * den THEN FloorLog2(num, 2 * den) + 1
  ELSE IF num < den THEN FloorLog2(2 * num, den) - 1
  ELSE 0

RECURSIVE Pow2(_)
Pow2(k) == IF k = 0 THEN 1 ELSE 2 * Pow2(k - 1)

\* 2^k modulo 100: from k = 2 on the residues come round every 20 steps
Pow2Mod100(k) ==
  IF k < 2 THEN Pow2(k)
  ELSE <<4, 8, 16, 32, 64, 28, 56, 12, 24, 48, 96, 92, 84, 68, 36, 72, 44, 88, 76, 52>>
         [((k - 2) % 20) + 1]

\* Math.floor(size * (percent / 100)) in IEEE doubles, size a positive
\* integer below 2^12 and percent an integer in 0..100.  With
\* 2^-e <= percent / 100 < 2^(1 - e) the double of percent / 100 is
\* M / 2^(52 + e), M the integer nearest to percent * 2^(52 + e) / 100, so
\* with t == (percent * 2^(52 + e)) % 100 it is the quotient less
\* t / (100 * 2^(52 + e)) when t < 50 and more than the quotient when t > 50
\* (t = 50 cannot be: percent * 2^(52 + e) is a multiple of 4).  The product
\* differs from size * percent / 100 by less than 2^-40, so its floor is the
\* exact one unless size * percent / 100 is an integer q >= 1 and the product
\* lies below q and is not rounded up to q: that is, unless t is in 1..49
\* and size * t / (100 * 2^(52 + e)) exceeds half the distance from q to
\* the double below it, 2^(L - 53), L == floor(log2 q), less 1 when q = 2^L.
PercentOf(size, percent) ==
  LET q == (size * percent) \div 100
  IN IF percent = 0 \/ (size * percent) % 100 # 0 THEN q
     ELSE LET e == 0 - FloorLog2(percent, 100)
              t == (percent * Pow2Mod100(52 + e)) % 100
              L == IF q = Pow2(FloorLog2(q, 1)) THEN FloorLog2(q, 1) - 1 ELSE FloorLog2(q, 1)
              j == L - 1 + e
              roundedBelow ==
                IF j >= 0 THEN size * t > 100 * Pow2(j) ELSE size * t * Pow2(0 - j) > 100
          IN IF t \in 1..49 /\ roundedBelow THEN q - 1 ELSE q

\* a location field that is not a number (typeof ... !== "number")
NoPercent == -1

\* BaseLLMProvider.generateActionWithPureVision, after the query returned
GenerateActionWithPureVision(resp, width, height) ==
  IF /\ resp.kind = "json"
     /\ resp.location # <<>>
     /\ resp.location[1].x_percent # NoPercent
     /\ resp.location[1].y_percent # NoPercent
  THEN Decision(ActionOrError(resp.action), Undefined,
                << [x |-> PercentOf(width, resp.location[1].x_percent),
                    y |-> PercentOf(height, resp.location[1].y_percent)] >>,
                NumOr(resp.confidence, DefaultPureVisionConfidence), PURE_VISION)
  ELSE ErrorDecision(PURE_VISION)

\* BaseLLMProvider.verifyCondition, after the query returned: parsed.passed || false
VerifyCondition(resp) == resp.kind = "json" /\ resp.passed

\* ------------------------------------------------------ the action dispatcher
\* One call on the driver or the LLM made by the public method in progress
\* ("executeAction" marks the entry of the dispatcher); ok is FALSE when the
\* call raised.
Ev(call) == [call |-> call, x |-> -1, y |-> -1, ok |-> TRUE]
EvAt(call, xy, ok) == [call |-> call, x |-> xy.x, y |-> xy.y, ok |-> ok]
EvFail(call) == [call |-> call, x |-> -1, y |-> -1, ok |-> FALSE]

GestureCalls == {"tap", "press", "moveTo", "keys", "performActions", "releaseActions"}

Outcome(error, calls) == [error |-> error, calls |-> calls]

\* a target that prefers the element's centre to the coordinates
TargetCoordsElementFirst(element, coordinates) ==
  IF element # <<>> /\ GetElementCenter(element[1]) # <<>>
  THEN [error |-> "", xy |-> GetElementCenter(element[1])]
  ELSE IF coordinates # <<>> THEN [error |-> "", xy |-> coordinates]
  ELSE [error |-> IF element = <<>> THEN ErrNoTarget ELSE ErrNoBounds, xy |-> <<>>]

\* let targetCoords = coordinates; if (!targetCoords) { ... getElementCenter ... }
TargetCoords(element, coordinates) ==
  IF coordinates # <<>> THEN [error |-> "", xy |-> coordinates]
  ELSE IF element = <<>> THEN [error |-> ErrNoTarget, xy |-> <<>>]
  ELSE IF GetElementCenter(element[1]) = <<>> THEN [error |-> ErrNoBounds, xy |-> <<>>]
  ELSE [error |-> "", xy |-> GetElementCenter(element[1])]

\* const center = coordinates || (element ? getElementCenter(element) : undefined)
CenterOf(element, coordinates) ==
  IF coordinates # <<>> THEN coordinates
  ELSE IF element = <<>> THEN <<>>
  ELSE GetElementCenter(element[1])

\* clickElement: one tap, then the UI-settle wait
ClickElement(element, coordinates, driverFails) ==
  LET t == TargetCoords(element, coordinates)
  IN IF t.error # "" THEN Outcome(t.error, <<>>)
     ELSE IF driverFails THEN Outcome(ErrTransport, <<EvAt("tap", t.xy[1], FALSE)>>)
     ELSE Outcome("", <<EvAt("tap", t.xy[1], TRUE), Ev("settle")>>)

\* typeText: tap to focus, keys, settle
TypeText(element, coordinates, driverFails) ==
  LET c == ClickElement(element, coordinates, driverFails)
  IN IF c.error # "" THEN c
     ELSE Outcome("", c.calls \o <<Ev("keys"), Ev("settle")>>)

\* swipe(direction, distance): distance in hundredths, from 0 to 50.
\* delta = Math.floor(windowSize.height * distance) is computed in doubles;
\* on the window of 844 the product is a whole number only for the distances
\* 0, 0.25 and 0.5, which are doubles themselves, so the floor of the double
\* product is the floor of the exact one.
Swipe(direction, distance, driverFails) ==
  LET centerX == WindowWidth \div 2
      centerY == WindowHeight \div 2
      delta == (WindowHeight * distance) \div 100
      start == CASE direction = "up" -> [x |-> centerX, y |-> centerY + delta]
                 [] direction = "down" -> [x |-> centerX, y |-> centerY - delta]
                 [] direction = "left" -> [x |-> centerX + delta, y |-> centerY]
                 [] direction = "right" -> [x |-> centerX - delta, y |-> centerY]
                 [] OTHER -> [x |-> centerX, y |-> centerY]
      end == CASE direction = "up" -> [x |-> centerX, y |-> centerY - delta]
               [] direction = "down" -> [x |-> centerX, y |-> centerY + delta]
               [] direction = "left" -> [x |-> centerX - delta, y |-> centerY]
               [] direction = "right" -> [x |-> centerX + delta, y |-> centerY]
               [] OTHER -> [x |-> centerX, y |-> centerY]
  IN IF driverFails
     THEN Outcome(ErrTransport, <<Ev("getWindowSize"), EvAt("press", start, FALSE)>>)
     ELSE Outcome("", <<Ev("getWindowSize"), EvAt("press", start, TRUE),
                        EvAt("moveTo", end, TRUE), Ev("settle")>>)

\* a long press that ends in the UI-settle wait
LongPressThenSettle(element, coordinates, driverFails) ==
  LET t == TargetCoords(element, coordinates)
  IN IF t.error # "" THEN Outcome(t.error, <<>>)
     ELSE IF driverFails THEN Outcome(ErrTransport, <<EvAt("press", t.xy[1], FALSE)>>)
     ELSE Outcome("", <<EvAt("press", t.xy[1], TRUE), Ev("settle")>>)

\* longPress: press, hold, release, then a fixed pause
LongPress(element, coordinates, driverFails) ==
  LET t == TargetCoords(element, coordinates)
  IN IF t.error # "" THEN Outcome(t.error, <<>>)
     ELSE IF driverFails THEN Outcome(ErrTransport, <<EvAt("press", t.xy[1], FALSE)>>)
     ELSE Outcome("", <<EvAt("press", t.xy[1], TRUE), Ev("pause")>>)

\* doubleTap: tap, pause(75), tap, settle
DoubleTap(element, coordinates, driverFails) ==
  LET t == TargetCoords(element, coordinates)
  IN IF t.error # "" THEN Outcome(t.error, <<>>)
     ELSE IF driverFails THEN Outcome(ErrTransport, <<EvAt("tap", t.xy[1], FALSE)>>)
     ELSE Outcome("", <<EvAt("tap", t.xy[1], TRUE), Ev("pause"),
                        EvAt("tap", t.xy[1], TRUE), Ev("settle")>>)

\* pinch and zoom: two-finger performActions around the centre, releaseActions, settle
PinchZoom(element, coordinates, driverFails) ==
  LET center == CenterOf(element, coordinates)
  IN IF center = <<>> THEN Outcome(ErrNoTarget, <<>>)
     ELSE IF driverFails THEN Outcome(ErrTransport, <<EvAt("performActions", center[1], FALSE)>>)
     ELSE Outcome("", <<EvAt("performActions", center[1], TRUE), Ev("releaseActions"),
                        Ev("settle")>>)

DefaultSwipeDistance == 50
ScrollDistance == 30

\* The parameters executeAction reads: coordinates, an option; direction,
\* Undefined when missing; distance in hundredths, NoDistance (0) when
\* missing or zero, which parameters.distance || 0.5 treats alike.
NoDistance == 0
Parameters(coordinates, direction, distance) ==
  [coordinates |-> coordinates, direction |-> direction, distance |-> distance]

NoParameters == Parameters(<<>>, Undefined, NoDistance)

\* parameters.direction || d
DirectionOr(direction, d) == IF direction = Undefined THEN d ELSE direction

\* parameters.distance || 0.5
DistanceOr(distance) == IF distance = NoDistance THEN DefaultSwipeDistance ELSE distance

\* a switch whose default branch taps
GestureWithDefaultTap(actionType, element, parameters, driverFails) ==
  CASE actionType = "type_text" -> TypeText(element, parameters.coordinates, driverFails)
    [] actionType = "swipe" ->
         Swipe(DirectionOr(parameters.direction, "up"), DistanceOr(parameters.distance),
               driverFails)
    [] actionType = "scroll" ->
         Swipe(DirectionOr(parameters.direction, "down"), ScrollDistance, driverFails)
    [] actionType = "long_press" -> LongPress(element, parameters.coordinates, driverFails)
    [] actionType = "double_tap" -> DoubleTap(element, parameters.coordinates, driverFails)
    [] actionType \in {"pinch", "zoom"} ->
         PinchZoom(element, parameters.coordinates, driverFails)
    [] OTHER -> ClickElement(element, parameters.coordinates, driverFails)

\* the switch of executeAction
GestureWith(actionType, element, parameters, driverFails) ==
  CASE actionType \in {"click", "tap"} ->
         ClickElement(element, parameters.coordinates, driverFails)
    [] actionType = "type_text" -> TypeText(element, parameters.coordinates, driverFails)
    [] actionType = "swipe" ->
         Swipe(DirectionOr(parameters.direction, "up"), DistanceOr(parameters.distance),
               driverFails)
    [] actionType = "scroll" ->
         Swipe(DirectionOr(parameters.direction, "down"), ScrollDistance, driverFails)
    [] actionType = "long_press" -> LongPress(element, parameters.coordinates, driverFails)
    [] actionType = "double_tap" -> DoubleTap(element, parameters.coordinates, driverFails)
    [] actionType \in {"pinch", "zoom"} ->
         PinchZoom(element, parameters.coordinates, driverFails)
    [] OTHER -> Outcome(ErrUnsupported, <<>>)

\* the switch on a decision of execute, whose parameters carry no direction
\* and no distance
Gesture(actionType, element, coordinates, driverFails) ==
  GestureWith(actionType, element, Parameters(coordinates, Undefined, NoDistance), driverFails)

Step(actionType, targetElementId, success, error, method) ==
  [actionType |-> actionType, targetElementId |-> targetElementId,
   success |-> success, error |-> error, method |-> method]

\* executeAction: screenshot before, the gesture, screenshot after; a raised
\* error ends in step.success = false, never in a throw
ExecuteAction(actionType, element, coordinates, driverFails) ==
  LET g == Gesture(actionType, element, coordinates, driverFails)
  IN [success |-> g.error = "", error |-> g.error,
      calls |-> <<Ev("executeAction"), Ev("takeScreenshot")>> \o g.calls
                \o (IF g.error = "" THEN <<Ev("takeScreenshot")>> ELSE <<>>)]

\* What can go wrong around the gesture: the screenshot before or after
\* raises, the gesture's first driver call raises, and maybePersistScreenshot
\* finds ARTIFACTS_DIR unset ("unset"), writes the file ("ok") or raises.
Failures(beforeFails, driverFails, afterFails, persist) ==
  [before |-> beforeFails, gesture |-> driverFails, after |-> afterFails, persist |-> persist]

NoFailures == Failures(FALSE, FALSE, FALSE, "unset")

\* try { capture; maybePersistScreenshot } catch {}
CaptureScreenshot(captureFails, persist) ==
  IF captureFails THEN <<EvFail("takeScreenshot")>>
  ELSE <<Ev("takeScreenshot")>>
       \o (CASE persist = "ok" -> <<Ev("writeFileSync")>>
              [] persist = "raise" -> <<EvFail("writeFileSync")>>
              [] OTHER -> <<>>)

\* an executeAction that gives up when the screenshot before cannot be taken
ExecuteActionScreenshotFatal(actionType, element, parameters, fails) ==
  LET g == IF fails.before \/ (fails.persist = "raise")
           THEN Outcome(ErrTransport, <<>>)
           ELSE GestureWith(actionType, element, parameters, fails.gesture)
  IN [success |-> g.error = "" /\ ~fails.after, error |-> g.error,
      calls |-> <<Ev("executeAction")>> \o CaptureScreenshot(fails.before, fails.persist)
                \o g.calls
                \o (IF g.error = "" THEN CaptureScreenshot(fails.after, fails.persist)
                    ELSE <<>>)]

\* executeAction with the parameters and the failures spelled out
ExecuteActionWith(actionType, element, parameters, fails) ==
  LET g == GestureWith(actionType, element, parameters, fails.gesture)
  IN [success |-> g.error = "", error |-> g.error,
      calls |-> <<Ev("executeAction")>> \o CaptureScreenshot(fails.before, fails.persist)
                \o g.calls
                \o (IF g.error = "" THEN CaptureScreenshot(fails.after, fails.persist)
                    ELSE <<>>)]

\* a missing confidence read as a low one
ShouldFallbackUndefinedIsLow(vc, actionResponse, targetElement) ==
  \/ vc.alwaysUseVision
  \/ vc.fallbackOnElementNotFound /\ actionResponse.elementId # Undefined /\ targetElement = <<>>
  \/ vc.fallbackOnLowConfidence /\ actionResponse.confidence < vc.confidenceThreshold
  \/ actionResponse.action = "error"

\* shouldFallbackToVision
ShouldFallbackToVision(vc, actionResponse, targetElement) ==
  \/ vc.alwaysUseVision
  \/ vc.fallbackOnElementNotFound /\ actionResponse.elementId # Undefined /\ targetElement = <<>>
  \/ /\ vc.fallbackOnLowConfidence
     /\ actionResponse.confidence # NoConfidence
     /\ actionResponse.confidence < vc.confidenceThreshold
  \/ actionResponse.action = "error"

\* if (actionResponse.elementId) targetElement = currentState.elements.find(...)
Resolve(elements, actionResponse) ==
  IF actionResponse.elementId # Undefined THEN Find(elements, actionResponse.elementId) ELSE <<>>

\* tier 1: if (actionResponse.elementId) targetElement = ...find(...), with
\* no else: carried is the local's value before
ResolveOrKeep(carried, elements, actionResponse) ==
  IF actionResponse.elementId # Undefined
  THEN Find(elements, actionResponse.elementId)
  ELSE carried

\* a tier after the first that, like the first, has no else branch
ReResolveWithoutElse(carried, elements, actionResponse) ==
  ResolveOrKeep(carried, elements, actionResponse)

\* tiers 2 to 4: the same, else targetElement = undefined
ReResolve(carried, elements, actionResponse) == Resolve(elements, actionResponse)

\* ------------------------------------------------------------------ state
VARIABLES
  config,         \* the options the agent was constructed with
  visionConfig,   \* this.visionConfig
  testResult,     \* this.testResult, an option
  actionHistory,  \* this.actionHistory: the action of every dispatched decision
  currentState,   \* this.currentState, an option: the latest snapshot
  actionResponse, \* execute's local actionResponse, an option
  targetElement,  \* execute's local targetElement, an option
  pc,             \* where the agent's one task stands: idle, tier1..tier4, wait
  op,             \* the public method in progress
  wait,           \* waitForCondition's arguments and locals
  result,         \* how the latest public method ended
  trace,          \* the calls made by the latest public method, in order
  attempts,       \* the tiers the latest execute ran, in order, and what each was answered
  before,         \* this.testResult as it was when the latest public method was called
  stopped,        \* stopSession has returned this.testResult to its caller
  mcp,            \* the MCP server in front of the agent: its fields and its latest tool call
  settle,         \* waitForUiSettle's arguments and locals, and the samples it took
  grid,           \* overlayGridLines' arguments and, once it has run, its gridMap
  pureVision,     \* generateActionWithPureVision's response and screen size, and its decision
  dispatcher      \* executeAction's arguments and, once it has returned, its step and calls

vars == <<config, visionConfig, testResult, actionHistory, currentState, actionResponse,
          targetElement,
          pc, op, wait, result, trace, attempts, before, stopped, mcp, settle, grid, pureVision,
          dispatcher>>

\* the agent's own state
agentVars == <<config, visionConfig, testResult, actionHistory, currentState, actionResponse,
          targetElement,
               pc, op, wait, result, trace, attempts, before, stopped>>

\* the variables outside the agent, which no method of the agent touches
others == <<mcp, settle, grid, pureVision, dispatcher>>

\* the variables outside the MCP server and its agent
outsideServer == <<settle, grid, pureVision, dispatcher>>

\* the variables outside the UI-settle wait
outsideSettle == <<agentVars, mcp, grid, pureVision, dispatcher>>

\* the variables outside the grid overlay
outsideGrid == <<agentVars, mcp, settle, pureVision, dispatcher>>

\* the variables outside the pure-vision parser
outsidePureVision == <<agentVars, mcp, settle, grid, dispatcher>>

\* the variables outside a call of the dispatcher alone
outsideDispatcher == <<agentVars, mcp, settle, grid, pureVision>>

\* polls: one entry per call of verifyConditionOneShot, with the clock reading
\* at which it began, the index of its first call in trace, and its outcome
NoWait == [timeoutMs |-> 0, pollMs |-> 0, elapsed |-> 0, polls |-> <<>>]
Poll(at, first, outcome) == [at |-> at, first |-> first, outcome |-> outcome]

\* what one tier was answered: the kind of the LLM's response ("none" when
\* the snapshot raised) and, at tier 2, the size of the snapshot's tagMapping
Attempt(tier, kind, tags) == [tier |-> tier, kind |-> kind, tags |-> tags]
NoOutcome == [op |-> "none", outcome |-> "none", value |-> "none", error |-> ""]

Returned(o, value) == [op |-> o, outcome |-> "returned", value |-> value, error |-> ""]
Threw(o, error) == [op |-> o, outcome |-> "threw", value |-> "none", error |-> error]

\* A UIState.  Its elements are ElementsOf(screen); the screenshot, tagMapping
\* and gridMap that a capture mode attaches are read only by the tier that
\* asked for them, right after the snapshot.
Snapshot(screen) == [screen |-> screen]

Steps == testResult[1].steps
VerificationResults == testResult[1].verificationResults

\* MobileAgentMCPServer's fields after construction (agent = null,
\* driver = null, sessionActive = false), no tool called yet; step is where
\* the handler of mobile_execute stands, visionMode the argument of the
\* mobile_execute call handled last when no other tool was called since, and
\* modeFromExecute tells that it was a mobile_execute call asking for
\* "pure-vision-only" that wrote pureVisionOnly last
NoServer ==
  [agent |-> FALSE, driver |-> FALSE, sessionActive |-> FALSE, step |-> "idle",
   tool |-> "none", isError |-> FALSE, agentCalled |-> FALSE,
   visionMode |-> "undefined", modeFromExecute |-> FALSE]

\* overlayGridLines called with a screenshot of actualWidth x actualHeight
\* pixels, gridSize and the window's size; gridMap is set when it has run
GridCall(gridSize, actualWidth, actualHeight, logicalWidth, logicalHeight) ==
  [gridSize |-> gridSize, actualWidth |-> actualWidth, actualHeight |-> actualHeight,
   logicalWidth |-> logicalWidth, logicalHeight |-> logicalHeight,
   gridMap |-> <<>>, done |-> FALSE]

\* no grid overlay has been asked for
NoGrid == GridCall(0, 0, 0, 0, 0)

\* generateActionWithPureVision about to parse resp for a screen of
\* width x height; decision is set when it has returned
PureVisionCall(resp, width, height) ==
  [resp |-> resp, width |-> width, height |-> height, decision |-> <<>>]

\* no pure-vision answer is being parsed
NoPureVision == PureVisionCall(<<>>, 0, 0)

\* executeAction about to run; step and calls are set when it has returned
DispatchCall(actionType, element, parameters, fails) ==
  [actionType |-> actionType, element |-> element, parameters |-> parameters,
   fails |-> fails, step |-> <<>>, calls |-> <<>>]

\* the dispatcher has not been called on its own
NoDispatch == DispatchCall("none", <<>>, NoParameters, NoFailures)

\* no UI-settle wait has been called
NoSettle ==
  [pc |-> "idle", timeoutMs |-> 0, pollMs |-> 0, stableIterations |-> 0, elapsed |-> 0,
   lastSource |-> <<>>, stable |-> 0, samples |-> <<>>, outcome |-> "none"]

InitOver(configs, grids, visions, dispatches) ==
  /\ config \in configs
  /\ visionConfig = Constructor(config)
  /\ testResult = <<>>
  /\ actionHistory = <<>>
  /\ currentState = <<>>
  /\ actionResponse = <<>>
  /\ targetElement = <<>>
  /\ pc = "idle"
  /\ op = "none"
  /\ wait = NoWait
  /\ result = NoOutcome
  /\ trace = <<>>
  /\ attempts = <<>>
  /\ before = <<>>
  /\ stopped = FALSE
  /\ mcp = NoServer
  /\ settle = NoSettle
  /\ grid \in grids
  /\ pureVision \in visions
  /\ dispatcher \in dispatches

Init == InitOver(SessionConfigs, {NoGrid}, {NoPureVision}, {NoDispatch})

\* startSession: a fresh testResult, then the initial snapshot
AgentStartSession ==
  /\ pc = "idle"
  /\ testResult' = <<[success |-> FALSE, steps |-> <<>>, verificationResults |-> <<>>]>>
  /\ actionHistory' = <<>>
  /\ stopped' = FALSE
  /\ \E screen \in Screens, snapFails \in BOOLEAN :
       IF snapFails
       THEN /\ trace' = <<EvFail("getPageSource")>>
            /\ result' = Threw("startSession", ErrTransport)
            /\ UNCHANGED currentState
       ELSE /\ trace' = <<Ev("getPageSource")>>
            /\ result' = Returned("startSession", "none")
            /\ currentState' = <<Snapshot(screen)>>
  /\ actionResponse' = <<>>
  /\ targetElement' = <<>>
  /\ wait' = NoWait
  /\ attempts' = <<>>
  /\ before' = testResult
  /\ UNCHANGED <<config, visionConfig, pc, op>>

\* startSession called on the agent directly
StartSession == AgentStartSession /\ UNCHANGED others

\* if (!this.testResult) throw ...
HasSession(tr) == tr # <<>>

\* execute without its precondition
BeginExecuteUnchecked(o) ==
  /\ HasSession(testResult) => Len(Steps) < MaxSteps
  /\ op' = o
  /\ pc' = IF visionConfig.pureVisionOnly THEN "tier4" ELSE "tier1"
  /\ trace' = <<>>
  /\ actionResponse' = <<>>
  /\ targetElement' = <<>>
  /\ result' = NoOutcome

\* an execute that enters the cascade whatever pureVisionOnly says
BeginExecuteCascadeOnly(o) ==
  IF ~HasSession(testResult)
  THEN /\ result' = Threw(o, ErrNotStarted)
       /\ trace' = <<>>
       /\ actionResponse' = <<>>
       /\ targetElement' = <<>>
       /\ UNCHANGED <<pc, op>>
  ELSE /\ Len(Steps) < MaxSteps
       /\ op' = o
       /\ pc' = "tier1"
       /\ trace' = <<>>
       /\ actionResponse' = <<>>
       /\ targetElement' = <<>>
       /\ result' = NoOutcome

\* an execute that honours pureVisionOnly only while vision is enabled
BeginExecuteNeedsVision(o) ==
  IF ~HasSession(testResult)
  THEN /\ result' = Threw(o, ErrNotStarted)
       /\ trace' = <<>>
       /\ actionResponse' = <<>>
       /\ targetElement' = <<>>
       /\ UNCHANGED <<pc, op>>
  ELSE /\ Len(Steps) < MaxSteps
       /\ op' = o
       /\ pc' = IF visionConfig.pureVisionOnly /\ visionConfig.enabled THEN "tier4"
                ELSE "tier1"
       /\ trace' = <<>>
       /\ actionResponse' = <<>>
       /\ targetElement' = <<>>
       /\ result' = NoOutcome

\* the first lines of execute, up to the choice between pure-vision-only and
\* the cascade; o is the public method that was called
BeginExecuteUpTo(o, bound) ==
  IF ~HasSession(testResult)
  THEN /\ result' = Threw(o, ErrNotStarted)
       /\ trace' = <<>>
       /\ actionResponse' = <<>>
       /\ targetElement' = <<>>
       /\ UNCHANGED <<pc, op>>
  ELSE /\ Len(Steps) < bound
       /\ op' = o
       /\ pc' = IF visionConfig.pureVisionOnly THEN "tier4" ELSE "tier1"
       /\ trace' = <<>>
       /\ actionResponse' = <<>>
       /\ targetElement' = <<>>
       /\ result' = NoOutcome

\* execute, begun while the session holds fewer than MaxSteps steps
BeginExecute(o) == BeginExecuteUpTo(o, MaxSteps)

AgentExecute ==
  /\ pc = "idle"
  /\ BeginExecute("execute")
  /\ wait' = NoWait
  /\ attempts' = <<>>
  /\ before' = testResult
  /\ UNCHANGED <<config, visionConfig, testResult, actionHistory, currentState, stopped>>

\* execute called on the agent directly
Execute == AgentExecute /\ UNCHANGED others

\* executeAndWait: await this.execute(...); return await this.waitForCondition(...)
ExecuteAndWait ==
  /\ pc = "idle"
  /\ BeginExecute("executeAndWait")
  /\ \E timeoutMs \in 0..MaxTimeoutMs, pollMs \in 1..MaxPollMs :
       wait' = IF HasSession(testResult)
               THEN [NoWait EXCEPT !.timeoutMs = timeoutMs, !.pollMs = pollMs]
               ELSE NoWait
  /\ attempts' = <<>>
  /\ before' = testResult
  /\ UNCHANGED <<others, config, visionConfig, testResult, actionHistory, currentState, stopped>>

\* executeAndWait going on to waitForCondition whatever execute did
EndExecuteThenWait(threw, error) ==
  IF op = "executeAndWait"
  THEN /\ pc' = "wait"
       /\ UNCHANGED <<op, result, wait>>
  ELSE /\ pc' = "idle"
       /\ op' = "none"
       /\ result' = IF threw THEN Threw(op, error) ELSE Returned(op, "none")
       /\ UNCHANGED wait

\* execute is over: back to its caller.  executeAndWait goes on to
\* waitForCondition when execute returned, and throws what execute threw.
EndExecute(threw, error) ==
  IF op = "executeAndWait" /\ ~threw
  THEN /\ pc' = "wait"
       /\ UNCHANGED <<op, result, wait>>
  ELSE /\ pc' = "idle"
       /\ op' = "none"
       /\ result' = IF threw THEN Threw(op, error) ELSE Returned(op, "none")
       /\ UNCHANGED wait

\* a catch that rethrows without recording the failed step
FailNoRecord(error, calls) ==
  /\ trace' = trace \o calls
  /\ EndExecute(TRUE, error)
  /\ UNCHANGED <<testResult, actionHistory>>

\* the catch of execute: record the CLICK sentinel step and rethrow
Fail(error, calls) ==
  /\ testResult' = <<[testResult[1] EXCEPT
                        !.steps = Append(@, Step(CLICK, Undefined, FALSE, error, ""))]>>
  /\ trace' = trace \o calls
  /\ EndExecute(TRUE, error)
  /\ UNCHANGED actionHistory

\* a dispatch that keeps the latest step only
DispatchOverwrites(decision, element, usedMethod, calls, driverFails) ==
  LET r == ExecuteAction(decision.action, element, decision.coordinates, driverFails)
      id == IF element = <<>> THEN Undefined ELSE element[1].elementId
  IN /\ testResult' = <<[testResult[1] EXCEPT
                           !.steps = <<Step(decision.action, id, r.success,
                                            r.error, usedMethod)>>]>>
     /\ actionHistory' = Append(actionHistory, decision.action)
     /\ trace' = trace \o calls \o r.calls
     /\ EndExecute(FALSE, "")

\* executeAction on the decision, then record the step and the history entry
Dispatch(decision, element, usedMethod, calls, driverFails) ==
  LET r == ExecuteAction(decision.action, element, decision.coordinates, driverFails)
      id == IF element = <<>> THEN Undefined ELSE element[1].elementId
  IN /\ testResult' = <<[testResult[1] EXCEPT
                           !.steps = Append(@, Step(decision.action, id, r.success,
                                                    r.error, usedMethod))]>>
     /\ actionHistory' = Append(actionHistory, decision.action)
     /\ trace' = trace \o calls \o r.calls
     /\ EndExecute(FALSE, "")

\* a cascade that tries the same tier again
NextTierRetry(tier, calls) ==
  /\ pc' = pc
  /\ trace' = trace \o calls
  /\ UNCHANGED <<testResult, actionHistory, op, result, wait>>

\* a tier gave up and the next one is tried
NextTier(tier, calls) ==
  /\ pc' = tier
  /\ trace' = trace \o calls
  /\ UNCHANGED <<testResult, actionHistory, op, result, wait>>

\* a catch that goes on to tier 4 whatever pureVisionConfig.enabled says
AfterTier3ErrorAlwaysTier4(error, calls) == NextTier("tier4", calls)

\* catch (gridError): tier 4 if pureVisionConfig.enabled, else throw gridError
AfterTier3Error(error, calls) ==
  IF visionConfig.pureVisionEnabled
  THEN NextTier("tier4", calls)
  ELSE Fail(error, calls)

\* What a tier attempt draws once its snapshot is settled: every value of
\* inputs when the snapshot was taken, and one value, which nothing reads,
\* when it failed.
UnlessFailed(snapFails, inputs) ==
  IF snapFails THEN {CHOOSE input \in inputs : TRUE} ELSE inputs

\* Tier 1: tryHierarchyApproach, target resolution, the fallback test
Tier1Over(responses) ==
  /\ pc = "tier1"
  /\ \E snapFails \in BOOLEAN :
     \E screen \in UnlessFailed(snapFails, Screens), resp \in UnlessFailed(snapFails, responses),
        driverFails \in UnlessFailed(snapFails, BOOLEAN) :
       /\ attempts' = Append(attempts, Attempt("tier1", IF snapFails THEN "none" ELSE resp.kind,
                                              0))
       /\ IF snapFails
          THEN /\ Fail(ErrTransport, <<EvFail("getPageSource")>>)
               /\ UNCHANGED <<currentState, actionResponse, targetElement>>
          ELSE /\ currentState' = <<Snapshot(screen)>>
               /\ IF resp.kind = "raise"
                  THEN /\ Fail(ErrLLM, <<Ev("getPageSource"), EvFail("query")>>)
                       /\ UNCHANGED <<actionResponse, targetElement>>
                  ELSE LET decision == GenerateAction(resp)
                           element == ResolveOrKeep(targetElement, ElementsOf(screen), decision)
                           calls == <<Ev("getPageSource"), Ev("query")>>
                       IN /\ actionResponse' = <<decision>>
                          /\ targetElement' = element
                          /\ IF /\ ShouldFallbackToVision(visionConfig, decision, element)
                                /\ visionConfig.enabled
                             THEN NextTier("tier2", calls)
                             ELSE Dispatch(decision, element, HIERARCHY, calls, driverFails)
  /\ UNCHANGED <<others, config, visionConfig, before, stopped>>

\* Tier 2: tryVisionTaggingApproach; an exception leads to tier 3
Tier2Over(responses) ==
  /\ pc = "tier2"
  /\ \E snapFails \in BOOLEAN :
     \E screen \in UnlessFailed(snapFails, Screens), resp \in UnlessFailed(snapFails, responses),
        driverFails \in UnlessFailed(snapFails, BOOLEAN) :
       /\ attempts' = Append(attempts, Attempt("tier2", IF snapFails THEN "none" ELSE resp.kind,
                                              IF snapFails THEN 0 ELSE Len(TagMapping(ElementsOf(screen)))))
       /\ IF snapFails
          THEN /\ NextTier("tier3", <<EvFail("getPageSource")>>)
               /\ UNCHANGED <<currentState, actionResponse, targetElement>>
          ELSE /\ currentState' = <<Snapshot(screen)>>
               /\ IF resp.kind = "raise"
                  THEN /\ NextTier("tier3", <<Ev("getPageSource"), Ev("takeScreenshot"),
                                              EvFail("queryWithVision")>>)
                       /\ UNCHANGED <<actionResponse, targetElement>>
                  ELSE LET decision ==
                             GenerateActionWithVisionTagging(TagMapping(ElementsOf(screen)), resp)
                           element == ReResolve(targetElement, ElementsOf(screen), decision)
                           calls == <<Ev("getPageSource"), Ev("takeScreenshot"),
                                      Ev("queryWithVision")>>
                       IN /\ actionResponse' = <<decision>>
                          /\ targetElement' = element
                          /\ Dispatch(decision, element, VISION_TAGGING, calls, driverFails)
  /\ UNCHANGED <<others, config, visionConfig, before, stopped>>

\* Tier 3: tryGridOverlayApproach; an exception leads to tier 4 when pure
\* vision is enabled and is rethrown otherwise
Tier3Over(responses) ==
  /\ pc = "tier3"
  /\ \E snapFails \in BOOLEAN :
     \E screen \in UnlessFailed(snapFails, Screens), resp \in UnlessFailed(snapFails, responses),
        driverFails \in UnlessFailed(snapFails, BOOLEAN) :
       /\ attempts' = Append(attempts, Attempt("tier3", IF snapFails THEN "none" ELSE resp.kind,
                                              0))
       /\ IF snapFails
          THEN /\ AfterTier3Error(ErrTransport, <<EvFail("getPageSource")>>)
               /\ UNCHANGED <<currentState, actionResponse, targetElement>>
          ELSE /\ currentState' = <<Snapshot(screen)>>
               /\ IF resp.kind = "raise"
                  THEN LET calls == <<Ev("getPageSource"), Ev("takeScreenshot"),
                                      Ev("getWindowSize"), EvFail("queryWithVision")>>
                       IN /\ AfterTier3Error(ErrLLM, calls)
                          /\ UNCHANGED <<actionResponse, targetElement>>
                  ELSE LET decision == GenerateActionWithGridOverlay(resp)
                           element == ReResolve(targetElement, ElementsOf(screen), decision)
                           calls == <<Ev("getPageSource"), Ev("takeScreenshot"),
                                      Ev("getWindowSize"), Ev("queryWithVision")>>
                       IN /\ actionResponse' = <<decision>>
                          /\ targetElement' = element
                          /\ Dispatch(decision, element, GRID_OVERLAY, calls, driverFails)
  /\ UNCHANGED <<others, config, visionConfig, before, stopped>>

\* actionResponse.confidence && actionResponse.confidence < minConfidence
BelowMinimum(confidence, minimumConfidence) ==
  confidence # 0 /\ confidence < NumOr(minimumConfidence, DefaultMinimumConfidence)

\* Tier 4: tryPureVisionApproach, in the cascade or alone (pureVisionOnly)
Tier4Over(responses) ==
  /\ pc = "tier4"
  /\ \E snapFails \in BOOLEAN :
     \E screen \in UnlessFailed(snapFails, Screens), resp \in UnlessFailed(snapFails, responses),
        driverFails \in UnlessFailed(snapFails, BOOLEAN) :
       /\ attempts' = Append(attempts, Attempt("tier4", IF snapFails THEN "none" ELSE resp.kind,
                                              0))
       /\ IF snapFails
          THEN /\ Fail(ErrTransport, <<EvFail("getPageSource")>>)
               /\ UNCHANGED <<currentState, actionResponse, targetElement>>
          ELSE /\ currentState' = <<Snapshot(screen)>>
               /\ LET calls == <<Ev("getPageSource"), Ev("takeScreenshot"), Ev("getWindowSize")>>
                  IN IF resp.kind = "raise"
                     THEN /\ Fail(ErrLLM, calls \o <<EvFail("queryWithVision")>>)
                          /\ UNCHANGED <<actionResponse, targetElement>>
                     ELSE LET decision ==
                                GenerateActionWithPureVision(resp, WindowWidth, WindowHeight)
                              element == ReResolve(targetElement, ElementsOf(screen), decision)
                          IN IF BelowMinimum(decision.confidence, visionConfig.minimumConfidence)
                             THEN /\ Fail(ErrLowConfidence, calls \o <<Ev("queryWithVision")>>)
                                  /\ UNCHANGED <<actionResponse, targetElement>>
                             ELSE /\ actionResponse' = <<decision>>
                                  /\ targetElement' = element
                                  /\ Dispatch(decision, element, PURE_VISION,
                                              calls \o <<Ev("queryWithVision")>>, driverFails)
  /\ UNCHANGED <<others, config, visionConfig, before, stopped>>

\* the tiers, the LLM answering with one of the responses above
Tier1 == Tier1Over(Tier1Responses)
Tier2 == Tier2Over(Tier2Responses)
Tier3 == Tier3Over(Tier3Responses)
Tier4 == Tier4Over(Tier4Responses)

Verification(status, actualValue) == [status |-> status, actualValue |-> actualValue]

\* a negative answer recorded as an error
StatusOfError(passed) == IF passed THEN PASSED ELSE ERROR

\* status: verificationResponse.passed ? PASSED : FAILED
StatusOf(passed) == IF passed THEN PASSED ELSE FAILED

\* assert: snapshot, verifyCondition, one VerificationPoint; never throws
\* once the session exists
AgentAssertUpTo(bound) ==
  /\ pc = "idle"
  /\ IF ~HasSession(testResult)
     THEN /\ result' = Threw("assert", ErrNotStarted)
          /\ trace' = <<>>
          /\ UNCHANGED <<testResult, currentState>>
     ELSE /\ Len(VerificationResults) < bound
          /\ \E screen \in Screens, snapFails \in BOOLEAN, resp \in VerifyResponses :
               IF snapFails
               THEN /\ testResult' = <<[testResult[1] EXCEPT !.verificationResults =
                                          Append(@, Verification(ERROR, FALSE))]>>
                    /\ trace' = <<EvFail("getPageSource")>>
                    /\ result' = Returned("assert", "false")
                    /\ UNCHANGED currentState
               ELSE /\ currentState' = <<Snapshot(screen)>>
                    /\ IF resp.kind = "raise"
                       THEN /\ testResult' = <<[testResult[1] EXCEPT !.verificationResults =
                                                  Append(@, Verification(ERROR, FALSE))]>>
                            /\ trace' = <<Ev("getPageSource"), EvFail("query")>>
                            /\ result' = Returned("assert", "false")
                       ELSE LET passed == VerifyCondition(resp)
                            IN /\ testResult' =
                                    <<[testResult[1] EXCEPT !.verificationResults =
                                         Append(@, Verification(StatusOf(passed), passed))]>>
                               /\ trace' = <<Ev("getPageSource"), Ev("query")>>
                               /\ result' = Returned("assert", IF passed THEN "true" ELSE "false")
  /\ actionResponse' = <<>>
  /\ targetElement' = <<>>
  /\ wait' = NoWait
  /\ attempts' = <<>>
  /\ before' = testResult
  /\ UNCHANGED <<config, visionConfig, actionHistory, pc, op, stopped>>

\* assert, called while the session holds fewer than MaxVerifications
\* verification points
AgentAssert == AgentAssertUpTo(MaxVerifications)

\* assert called on the agent directly
AssertCondition == AgentAssert /\ UNCHANGED others

\* stopSession: set success and hand this.testResult itself to the caller
AgentStopSession ==
  /\ pc = "idle"
  /\ IF ~HasSession(testResult)
     THEN /\ result' = Threw("stopSession", ErrNotStarted)
          /\ UNCHANGED <<testResult, stopped>>
     ELSE /\ \E status \in {"success", "failure"} :
               testResult' = <<[testResult[1] EXCEPT !.success = (status = "success")]>>
          /\ result' = Returned("stopSession", "none")
          /\ stopped' = TRUE
  /\ trace' = <<>>
  /\ actionResponse' = <<>>
  /\ targetElement' = <<>>
  /\ wait' = NoWait
  /\ attempts' = <<>>
  /\ before' = testResult
  /\ UNCHANGED <<config, visionConfig, actionHistory, currentState, pc, op>>

\* stopSession called on the agent directly
StopSession == AgentStopSession /\ UNCHANGED others

\* waitForCondition: const deadline = Date.now() + timeoutMs.  Time is
\* counted from that instant: elapsed < timeoutMs is Date.now() < deadline.
WaitForCondition ==
  /\ pc = "idle"
  /\ \E timeoutMs \in 0..MaxTimeoutMs, pollMs \in 1..MaxPollMs :
       wait' = [NoWait EXCEPT !.timeoutMs = timeoutMs, !.pollMs = pollMs]
  /\ pc' = "wait"
  /\ op' = "waitForCondition"
  /\ trace' = <<>>
  /\ actionResponse' = <<>>
  /\ targetElement' = <<>>
  /\ result' = NoOutcome
  /\ attempts' = <<>>
  /\ before' = testResult
  /\ UNCHANGED <<others, config, visionConfig, testResult, actionHistory, currentState, stopped>>

\* while (Date.now() < deadline)
BeforeDeadline(w) == w.elapsed < w.timeoutMs

\* a poll whose exception counts as a pass
VerifyConditionOneShotRaisePasses(snapFails, resp) ==
  snapFails \/ resp.kind = "raise" \/ VerifyCondition(resp)

\* verifyConditionOneShot: Boolean(res.passed), false when anything raises
VerifyConditionOneShot(snapFails, resp) ==
  IF snapFails \/ resp.kind = "raise" THEN FALSE ELSE VerifyCondition(resp)

\* a poll that records its verdict the way assert does
AfterOneShotRecorded(tr, ok) ==
  IF tr = <<>> THEN tr
  ELSE <<[tr[1] EXCEPT !.verificationResults =
            Append(@, [status |-> IF ok THEN PASSED ELSE FAILED, actualValue |-> ok])]>>

\* verifyConditionOneShot pushes no VerificationPoint: this.testResult after
\* one poll
AfterOneShot(tr, ok) == tr

\* one turn of the loop: a poll, then return true or pause(pollMs); the clock
\* advances by the pauses
WaitPoll ==
  /\ pc = "wait"
  /\ BeforeDeadline(wait)
  /\ \E screen \in Screens, snapFails \in BOOLEAN, resp \in VerifyResponses :
       LET ok == VerifyConditionOneShot(snapFails, resp)
           calls == IF snapFails THEN <<EvFail("getPageSource")>>
                    ELSE IF resp.kind = "raise" THEN <<Ev("getPageSource"), EvFail("query")>>
                    ELSE <<Ev("getPageSource"), Ev("query")>>
           outcome == IF snapFails \/ resp.kind = "raise" THEN "raised"
                      ELSE IF VerifyCondition(resp) THEN "passed" ELSE "failed"
           poll == Poll(wait.elapsed, Len(trace) + 1, outcome)
       IN /\ currentState' = IF snapFails THEN currentState
                             ELSE <<Snapshot(screen)>>
          /\ testResult' = AfterOneShot(testResult, ok)
          /\ IF ok
             THEN /\ wait' = [wait EXCEPT !.polls = Append(@, poll)]
                  /\ trace' = trace \o calls
                  /\ pc' = "idle"
                  /\ op' = "none"
                  /\ result' = Returned(op, "true")
             ELSE /\ wait' = [wait EXCEPT !.polls = Append(@, poll),
                                          !.elapsed = @ + wait.pollMs]
                  /\ trace' = trace \o calls \o <<Ev("pause")>>
                  /\ UNCHANGED <<pc, op, result>>
  /\ UNCHANGED <<others, config, visionConfig, actionHistory, actionResponse, targetElement, attempts,
                 before,
                 stopped>>

\* the deadline has passed: return false
WaitTimeout ==
  /\ pc = "wait"
  /\ ~BeforeDeadline(wait)
  /\ pc' = "idle"
  /\ op' = "none"
  /\ result' = Returned(op, "false")
  /\ UNCHANGED <<others, config, visionConfig, testResult, actionHistory, currentState, actionResponse,
                 targetElement, wait, trace, attempts, before, stopped>>

Next ==
  \/ StartSession
  \/ Execute
  \/ ExecuteAndWait
  \/ Tier1
  \/ Tier2
  \/ Tier3
  \/ Tier4
  \/ AssertCondition
  \/ StopSession
  \/ WaitForCondition
  \/ WaitPoll
  \/ WaitTimeout

Spec == Init /\ [][Next]_vars

\* The agent's one task is an async function on the JavaScript event loop:
\* once the promise it awaits settles (a poll's snapshot and LLM call, the
\* driver's pause timer) its continuation runs.
FairSpec == Spec /\ WF_vars(WaitPoll) /\ WF_vars(WaitTimeout)

\* The decision engine alone, over every configuration of the vision options.
CascadeInit == InitOver(Configs, {NoGrid}, {NoPureVision}, {NoDispatch})

CascadeNext ==
  \/ StartSession
  \/ Execute
  \/ Tier1
  \/ Tier2
  \/ Tier3
  \/ Tier4
  \/ StopSession

CascadeSpec == CascadeInit /\ [][CascadeNext]_vars

\* ----------------------------------------------------------- the MCP server
\* The options initialize() constructs the agent with: driver, apiKey,
\* llmProvider and verbose, no vision option.
ServerConfig ==
  [enableVisionFallback |-> Undefined, enabled |-> Undefined,
   fallbackOnElementNotFound |-> Undefined, fallbackOnLowConfidence |-> Undefined,
   alwaysUseVision |-> Undefined, pureVisionOnly |-> Undefined,
   pureVisionEnabled |-> Undefined,
   confidenceThreshold |-> NoConfidence, minimumConfidence |-> NoConfidence]

\* initialize(): nothing when driver and agent exist; else it throws before
\* remote() returned ("threw"), or after it, in the agent's construction
\* ("driverOnly"), or sets both
InitializeOutcomes == {"ok", "threw", "driverOnly"}

Initialize(server, outcome) ==
  IF server.driver /\ server.agent THEN server
  ELSE IF outcome = "ok" THEN [server EXCEPT !.driver = TRUE, !.agent = TRUE]
  ELSE IF outcome = "driverOnly" THEN [server EXCEPT !.driver = TRUE]
  ELSE server

\* a guard that forgets sessionActive
NoAgent(server) == ~server.agent

\* if (!this.agent || !this.sessionActive) throw ...
NoActiveSession(server) == ~server.agent \/ ~server.sessionActive

\* the result a handler returns for tool: isError is set by the catch of the
\* CallTool request handler; agentCalled tells whether a method of the agent
\* was called on the way
Reply(server, tool, isError, agentCalled) ==
  [server EXCEPT !.tool = tool, !.isError = isError, !.agentCalled = agentCalled,
                 !.visionMode = Undefined]

\* no tool call is in progress
ServerIdle == pc = "idle" /\ mcp.step = "idle"

\* handleStartSession
HandleStartSession ==
  /\ ServerIdle
  /\ \E outcome \in InitializeOutcomes :
       LET server == Initialize(mcp, outcome)
       IN IF ~(server.driver /\ server.agent)
          THEN /\ mcp' = Reply(server, "mobile_start_session", TRUE, FALSE)
               /\ UNCHANGED agentVars
          ELSE /\ AgentStartSession
               /\ mcp' = Reply([server EXCEPT !.sessionActive =
                                              @ \/ result'.outcome = "returned"],
                               "mobile_start_session", result'.outcome = "threw", TRUE)
  /\ UNCHANGED outsideServer

\* handleStopSession
HandleStopSession ==
  /\ ServerIdle
  /\ IF NoActiveSession(mcp)
     THEN /\ mcp' = Reply(mcp, "mobile_stop_session", TRUE, FALSE)
          /\ UNCHANGED agentVars
     ELSE /\ AgentStopSession
          /\ mcp' = Reply([mcp EXCEPT !.sessionActive =
                                        @ /\ result'.outcome # "returned"],
                          "mobile_stop_session", result'.outcome = "threw", TRUE)
  /\ UNCHANGED outsideServer

VisionModes == {Undefined, "pure-vision-only", "auto"}

\* handleExecute up to its call of the agent: the guard, then visionMode
HandleExecute ==
  /\ ServerIdle
  /\ IF NoActiveSession(mcp)
     THEN /\ mcp' = Reply(mcp, "mobile_execute", TRUE, FALSE)
          /\ UNCHANGED agentVars
     ELSE /\ HasSession(testResult) => Len(Steps) < MaxSteps
          /\ \E visionMode \in VisionModes :
               /\ visionConfig' =
                    [visionConfig EXCEPT !.pureVisionOnly =
                       IF visionMode = "pure-vision-only" THEN TRUE
                       ELSE IF visionMode = "auto" THEN FALSE ELSE @]
               /\ mcp' = [Reply(mcp, "mobile_execute", FALSE, FALSE) EXCEPT
                            !.step = "call", !.visionMode = visionMode,
                            !.modeFromExecute =
                               IF visionMode = "pure-vision-only" THEN TRUE
                               ELSE IF visionMode = "auto" THEN FALSE ELSE @]
          /\ UNCHANGED <<config, testResult, actionHistory, currentState, actionResponse, targetElement,
                         pc, op, wait, result, trace, attempts, before, stopped>>
  /\ UNCHANGED outsideServer

\* handleExecute: await this.agent.execute(args.instruction), the call
HandleExecuteCall ==
  /\ mcp.step = "call"
  /\ AgentExecute
  /\ mcp' = [mcp EXCEPT !.step = "await", !.agentCalled = TRUE]
  /\ UNCHANGED outsideServer

\* handleExecute: the agent's execute has returned or thrown
HandleExecuteReturn ==
  /\ mcp.step = "await"
  /\ pc = "idle"
  /\ mcp' = [mcp EXCEPT !.step = "idle", !.isError = (result.outcome = "threw")]
  /\ UNCHANGED agentVars
  /\ UNCHANGED outsideServer

\* handleAssert
HandleAssert ==
  /\ ServerIdle
  /\ IF NoActiveSession(mcp)
     THEN /\ mcp' = Reply(mcp, "mobile_assert", TRUE, FALSE)
          /\ UNCHANGED agentVars
     ELSE /\ AgentAssert
          /\ mcp' = Reply(mcp, "mobile_assert", result'.outcome = "threw", TRUE)
  /\ UNCHANGED outsideServer

\* handleGetState: reads the agent's currentState field, calls no method
HandleGetState ==
  /\ ServerIdle
  /\ mcp' = Reply(mcp, "mobile_get_state", NoActiveSession(mcp) \/ currentState = <<>>, FALSE)
  /\ UNCHANGED agentVars
  /\ UNCHANGED outsideServer

\* handleTakeScreenshot: needs the driver only
HandleTakeScreenshot ==
  /\ ServerIdle
  /\ \E driverFails \in BOOLEAN :
       mcp' = Reply(mcp, "mobile_take_screenshot", ~mcp.driver \/ driverFails, FALSE)
  /\ UNCHANGED agentVars
  /\ UNCHANGED outsideServer

\* handleConfigure: writes the agent's visionConfig
HandleConfigure ==
  /\ ServerIdle
  /\ IF ~mcp.agent
     THEN /\ mcp' = Reply(mcp, "mobile_configure", TRUE, FALSE)
          /\ UNCHANGED agentVars
     ELSE /\ \E enableVisionFallback \in Tri, pureVisionOnly \in Tri :
               /\ visionConfig' =
                    [visionConfig EXCEPT
                       !.enabled = IF enableVisionFallback = Undefined THEN @
                                   ELSE enableVisionFallback = "true",
                       !.pureVisionOnly = IF pureVisionOnly = Undefined THEN @
                                          ELSE pureVisionOnly = "true"]
               /\ mcp' = [Reply(mcp, "mobile_configure", FALSE, FALSE) EXCEPT
                            !.modeFromExecute = IF pureVisionOnly = Undefined THEN @
                                                ELSE FALSE]
          /\ UNCHANGED <<config, testResult, actionHistory, currentState, actionResponse, targetElement,
                         pc, op, wait, result, trace, attempts, before, stopped>>
  /\ UNCHANGED outsideServer

ServerInit == InitOver({ServerConfig}, {NoGrid}, {NoPureVision}, {NoDispatch})

ServerNext ==
  \/ HandleStartSession
  \/ HandleStopSession
  \/ HandleExecute
  \/ HandleExecuteCall
  \/ HandleExecuteReturn
  \/ Tier1
  \/ Tier2
  \/ Tier3
  \/ Tier4
  \/ HandleAssert
  \/ HandleGetState
  \/ HandleTakeScreenshot
  \/ HandleConfigure

\* The MCP server with its one agent, tool calls handled one at a time.
ServerSpec == ServerInit /\ [][ServerNext]_vars

\* ------------------------------------------------------- the UI-settle wait
\* Time is counted from the instant deadline is computed, as in
\* waitForCondition: elapsed < timeoutMs is Date.now() < deadline.
DefaultStableIterations == 2

\* what getPageSource can return
PageSources == {"a", "b"}
RaisedRead == "raise"

\* waitForUiSettle is called: deadline, lastSource and stable are set
WaitForUiSettle ==
  /\ settle.pc = "idle"
  /\ \E timeoutMs \in 0..MaxSettleTimeoutMs, pollMs \in 1..MaxSettlePollMs :
       settle' = [NoSettle EXCEPT !.pc = "loop", !.timeoutMs = timeoutMs, !.pollMs = pollMs,
                                  !.stableIterations = DefaultStableIterations]
  /\ UNCHANGED outsideSettle

\* a failed read that ends the wait with its error
SettleFailedReadThrows(s) == [s EXCEPT !.pc = "idle", !.outcome = "threw"]

\* a failed read that starts the count of identical samples again
SettleFailedReadResets(s) == [s EXCEPT !.stable = 0]

\* catch { }: a failed read changes nothing
SettleAfterFailedRead(s) == s

\* the try block after getPageSource returned src
SettleAfterRead(s, src) ==
  IF s.lastSource # <<>> /\ src = s.lastSource[1]
  THEN IF s.stable + 1 >= s.stableIterations
       THEN [s EXCEPT !.stable = @ + 1, !.pc = "idle", !.outcome = "returned"]
       ELSE [s EXCEPT !.stable = @ + 1]
  ELSE [s EXCEPT !.stable = 0, !.lastSource = <<src>>]

\* one turn of the loop, entered before the deadline: the read, which takes
\* readMs, the comparison, then return or pause(pollMs)
SettleSample ==
  /\ settle.pc = "loop"
  /\ settle.elapsed < settle.timeoutMs
  /\ \E src \in PageSources \cup {RaisedRead}, readMs \in 0..MaxReadMs :
       LET sampled == [settle EXCEPT !.samples = Append(@, [at |-> settle.elapsed, src |-> src]),
                                     !.elapsed = @ + readMs]
           s == IF src = RaisedRead THEN SettleAfterFailedRead(sampled)
                ELSE SettleAfterRead(sampled, src)
       IN settle' = IF s.pc = "loop" THEN [s EXCEPT !.elapsed = @ + s.pollMs] ELSE s
  /\ UNCHANGED outsideSettle

\* the deadline has passed: the loop ends and the wait returns
SettleTimeout ==
  /\ settle.pc = "loop"
  /\ settle.elapsed >= settle.timeoutMs
  /\ settle' = [settle EXCEPT !.pc = "idle", !.outcome = "returned"]
  /\ UNCHANGED outsideSettle

SettleNext ==
  \/ WaitForUiSettle
  \/ SettleSample
  \/ SettleTimeout

SettleSpec == Init /\ [][SettleNext]_vars

\* The wait runs on the agent's one task: its continuation runs once the read
\* or the pause timer it awaits has settled.
FairSettleSpec == SettleSpec /\ WF_vars(SettleSample) /\ WF_vars(SettleTimeout)

\* ------------------------------------------------ the gestures of execute
\* The cascade under the default options, the LLM naming every ActionType:
\* by element id at tier 1, by tag at tier 2, by grid cell at tier 3 and by
\* location at tier 4; a raised query hands tiers 2 and 3 on.  The action is
\* one of the enum, missing ("undefined", which the parsers turn into
\* "error"), or a word outside the enum.
GestureActions == ActionTypes \cup {"undefined", "press_back"}

GestureTier1Responses ==
  {Resp("json", a, e, 0, "undefined", <<>>, c, FALSE) :
     a \in GestureActions, e \in {"undefined", "2"}, c \in {40, 95}}

GestureTier2Responses ==
  {RaiseResp} \cup
  {Resp("json", a, "undefined", 2, "undefined", <<>>, 95, FALSE) : a \in GestureActions}

GestureTier3Responses ==
  {RaiseResp} \cup
  {Resp("json", a, "undefined", 0, "E5", <<>>, 95, FALSE) : a \in GestureActions}

GestureTier4Responses ==
  {Resp("json", a, "undefined", 0, "undefined", <<[x_percent |-> 50, y_percent |-> 85]>>,
        95, FALSE) : a \in GestureActions}

GestureTier1 == Tier1Over(GestureTier1Responses)
GestureTier2 == Tier2Over(GestureTier2Responses)
GestureTier3 == Tier3Over(GestureTier3Responses)
GestureTier4 == Tier4Over(GestureTier4Responses)

GestureInit == InitOver({ServerConfig}, {NoGrid}, {NoPureVision}, {NoDispatch})

GestureNext ==
  \/ StartSession
  \/ Execute
  \/ GestureTier1
  \/ GestureTier2
  \/ GestureTier3
  \/ GestureTier4
  \/ StopSession

GestureSpec == GestureInit /\ [][GestureNext]_vars

\* ------------------------------------------------- the session's histories
\* One agent with the default options, sessions of up to MaxHistory executes
\* and MaxHistory asserts.  Each tier is given one answer it dispatches, tier
\* 1 also one of low confidence that hands on to tier 2; a failed snapshot
\* ends tier 1 in a throw and hands tiers 2 and 3 on.
HistoryTier1Responses ==
  {Resp("json", "click", "2", 0, "undefined", <<>>, 95, FALSE),
   Resp("json", "click", "2", 0, "undefined", <<>>, 40, FALSE)}

HistoryTier2Responses ==
  {Resp("json", "click", "undefined", 2, "undefined", <<>>, 95, FALSE)}

HistoryTier3Responses ==
  {Resp("json", "click", "undefined", 0, "E5", <<>>, 95, FALSE)}

HistoryTier4Responses ==
  {Resp("json", "click", "undefined", 0, "undefined", <<[x_percent |-> 50, y_percent |-> 85]>>,
        95, FALSE)}

HistoryTier1 == Tier1Over(HistoryTier1Responses)
HistoryTier2 == Tier2Over(HistoryTier2Responses)
HistoryTier3 == Tier3Over(HistoryTier3Responses)
HistoryTier4 == Tier4Over(HistoryTier4Responses)

\* execute called on the agent directly
HistoryExecute ==
  /\ pc = "idle"
  /\ BeginExecuteUpTo("execute", MaxHistory)
  /\ wait' = NoWait
  /\ attempts' = <<>>
  /\ before' = testResult
  /\ UNCHANGED <<others, config, visionConfig, testResult, actionHistory, currentState, stopped>>

\* assert called on the agent directly
HistoryAssert == AgentAssertUpTo(MaxHistory) /\ UNCHANGED others

HistoryInit == InitOver({ServerConfig}, {NoGrid}, {NoPureVision}, {NoDispatch})

HistoryNext ==
  \/ StartSession
  \/ HistoryExecute
  \/ HistoryTier1
  \/ HistoryTier2
  \/ HistoryTier3
  \/ HistoryTier4
  \/ HistoryAssert
  \/ StopSession
  \/ WaitForCondition
  \/ WaitPoll
  \/ WaitTimeout

HistorySpec == HistoryInit /\ [][HistoryNext]_vars

\* ------------------------------------------------ the dispatcher on its own
\* executeAction called as the gesture tests call it: with an element or
\* without, with coordinates or without
DispatchElements ==
  {<<>>, <<ElementsOf("login")[2]>>, <<ElementsOf("home")[2]>>}

DispatchCoordinates == {<<>>, <<[x |-> 150, y |-> 250]>>}

SwipeDirections == {Undefined, "up", "down", "left", "right"}

\* distances in hundredths, from 0 to 0.5
SwipeDistances == {NoDistance, 10, 30, 50}

DispatchFailures ==
  {Failures(b, g, a, p) : b, g, a \in BOOLEAN, p \in {"unset", "ok", "raise"}}

DispatchCalls ==
  {DispatchCall(t, e, Parameters(c, Undefined, NoDistance), f) :
     t \in (ActionTypes \ {"swipe", "scroll"}) \cup {"error"},
     e \in DispatchElements, c \in DispatchCoordinates, f \in DispatchFailures}
  \cup
  {DispatchCall(t, <<>>, Parameters(<<>>, d, s), f) :
     t \in {"swipe", "scroll"}, d \in SwipeDirections, s \in SwipeDistances,
     f \in DispatchFailures}

\* executeAction, from its call to the step it returns
ExecuteActionCall ==
  /\ dispatcher.actionType # "none"
  /\ dispatcher.step = <<>>
  /\ LET r == ExecuteActionWith(dispatcher.actionType, dispatcher.element,
                                dispatcher.parameters, dispatcher.fails)
     IN dispatcher' =
          [dispatcher EXCEPT
             !.step = <<Step(dispatcher.actionType,
                             IF dispatcher.element = <<>> THEN Undefined
                             ELSE dispatcher.element[1].elementId,
                             r.success, r.error, "")>>,
             !.calls = r.calls]
  /\ UNCHANGED outsideDispatcher

DispatcherInit == InitOver({ServerConfig}, {NoGrid}, {NoPureVision}, DispatchCalls)

DispatcherNext == ExecuteActionCall

DispatcherSpec == DispatcherInit /\ [][DispatcherNext]_vars

\* --------------------------------------------------------- the grid overlay
\* overlayGridLines computes in IEEE doubles.  Every value it handles is far
\* below 2^53, so a quotient a / b is a double exactly when its denominator in
\* lowest terms is a power of two; otherwise the double is off by a rounding
\* error, and Math.floor of a result whose exact value is the integer q is q
\* or q - 1.  A result whose exact value is not an integer is at least
\* 1 / (2 * 4000) away from one, and its floor is the exact floor.
RECURSIVE GCD(_, _)
GCD(a, b) == IF b = 0 THEN a ELSE GCD(b, a % b)

RECURSIVE IsPowerOfTwo(_)
IsPowerOfTwo(n) == n = 1 \/ (n > 1 /\ n % 2 = 0 /\ IsPowerOfTwo(n \div 2))

ExactQuotient(a, b) == IsPowerOfTwo(b \div GCD(a, b))

\* the values Math.floor can give for a double that stands for num / den
FloorOf(num, den, exact) ==
  IF ~exact /\ num % den = 0 /\ num > 0
  THEN {num \div den, num \div den - 1}
  ELSE {num \div den}

\* Math.floor((i + 0.5) * cell), cell = actual / N
ActualCenters(i, N, actual) == FloorOf((2 * i + 1) * actual, 2 * N, ExactQuotient(actual, N))

\* a grid that stores the screenshot's pixel, not the window's point
AxisOptionsUnscaled(i, N, actual, logical) == ActualCenters(i, N, actual)

\* Math.floor(actualCenter / scaleFactor), scaleFactor = actual / logical:
\* the values one coordinate of column (or row) i can take
AxisOptions(i, N, actual, logical) ==
  UNION {FloorOf(c * logical, actual, ExactQuotient(actual, logical)) :
           c \in ActualCenters(i, N, actual)}

\* the coordinates of the N columns (or rows), one choice per index
AxisChoices(N, actual, logical) ==
  LET slack == {i \in 0..(N - 1) : Cardinality(AxisOptions(i, N, actual, logical)) > 1}
      values == UNION {AxisOptions(i, N, actual, logical) : i \in slack}
      picks == {f \in [slack -> values] :
                  \A i \in slack : f[i] \in AxisOptions(i, N, actual, logical)}
  IN {[i \in 0..(N - 1) |->
         IF i \in slack THEN f[i]
         ELSE CHOOSE v \in AxisOptions(i, N, actual, logical) : TRUE] : f \in picks}

\* String.fromCharCode(65 + col)
Letters ==
  <<"A", "B", "C", "D", "E", "F", "G", "H", "I", "J", "K", "L", "M",
    "N", "O", "P", "Q", "R", "S", "T", "U", "V", "W", "X", "Y", "Z">>

\* a label that numbers the columns too
GridLabelNumeric(col, row) == ToString(col + 1) \o ToString(row + 1)

\* `${colLabel}${rowLabel}`
GridLabel(col, row) == Letters[col + 1] \o ToString(row + 1)

\* the Map after the two loops' gridMap.set calls, cell k = row * N + col
\* being the k-th call: a later call with the same label replaces the entry
GridMapOf(N, xs, ys) ==
  LET cells == 0..(N * N - 1)
      labels == [k \in cells |-> GridLabel(k % N, k \div N)]
  IN [l \in {labels[k] : k \in cells} |->
        LET calls == {k \in cells : labels[k] = l}
            last == CHOOSE k \in calls : \A j \in calls : j <= k
        IN [x |-> xs[last % N], y |-> ys[last \div N]]]

\* overlayGridLines, on a screenshot whose metadata carries its size
OverlayGridLines ==
  /\ ~grid.done
  /\ grid.gridSize > 0
  /\ \E xs \in AxisChoices(grid.gridSize, grid.actualWidth, grid.logicalWidth),
        ys \in AxisChoices(grid.gridSize, grid.actualHeight, grid.logicalHeight) :
       grid' = [grid EXCEPT !.gridMap = GridMapOf(grid.gridSize, xs, ys), !.done = TRUE]
  /\ UNCHANGED outsideGrid

\* screenshot and window sizes: <<actualWidth, actualHeight, logicalWidth,
\* logicalHeight>>, at scales 3.29, 1, 3 by 2, 2.5, 3 and 0.5
GridDimensions ==
  { <<1284, 2778, 390, 844>>, <<1080, 1920, 1080, 1920>>, <<1200, 1600, 400, 800>>,
    <<800, 1280, 320, 512>>, <<960, 1440, 320, 480>>, <<195, 422, 390, 844>> }

GridCalls ==
  {GridCall(n, d[1], d[2], d[3], d[4]) : n \in MinGridSize..MaxGridSize, d \in GridDimensions}

GridInit == InitOver({ServerConfig}, GridCalls, {NoPureVision}, {NoDispatch})

GridNext == OverlayGridLines

GridSpec == GridInit /\ [][GridNext]_vars

\* ------------------------------------------------- the pure-vision parser
\* the percentages an answer names, or a field that is not a number
PureVisionPercents == {NoPercent, 0, 29, 50, 85, 90, 100}

PureVisionLocations ==
  {<<>>} \cup {<<[x_percent |-> x, y_percent |-> y]>> : x, y \in PureVisionPercents}

PureVisionResponses ==
  {GarbageResp} \cup
  {Resp("json", "click", "undefined", 0, "undefined", l, 95, FALSE) : l \in PureVisionLocations}

\* getWindowSize: <<width, height>>
PureVisionScreens == {<<400, 800>>, <<1024, 1366>>, <<375, 812>>, <<WindowWidth, WindowHeight>>}

PureVisionCalls ==
  {PureVisionCall(<<r>>, s[1], s[2]) : r \in PureVisionResponses, s \in PureVisionScreens}

\* generateActionWithPureVision, from the answer of queryWithVision on
PureVisionParse ==
  /\ pureVision.resp # <<>>
  /\ pureVision.decision = <<>>
  /\ pureVision' =
       [pureVision EXCEPT !.decision =
          <<GenerateActionWithPureVision(pureVision.resp[1], pureVision.width,
                                         pureVision.height)>>]
  /\ UNCHANGED outsidePureVision

PureVisionInit == InitOver({ServerConfig}, {NoGrid}, PureVisionCalls, {NoDispatch})

PureVisionNext == PureVisionParse

PureVisionSpec == PureVisionInit /\ [][PureVisionNext]_vars

TypeOK ==
  /\ pc \in {"idle", "tier1", "tier2", "tier3", "tier4", "wait"}
  /\ Len(testResult) <= 1

\* ------------------------------------------------------------- properties
Tiers == {"tier1", "tier2", "tier3", "tier4"}

LastStep == Steps[Len(Steps)]
LastVerification == VerificationResults[Len(VerificationResults)]

\* the indices in trace of the calls named name
Calls(name) == {i \in DOMAIN trace : trace[i].call = name}

\* executeAction was entered by the latest public method
DispatcherEntered == Calls("executeAction") # {}

\* a gesture call went to the driver
GestureSent == \E i \in DOMAIN trace : trace[i].call \in GestureCalls

\* a call of the latest public method raised
SomeCallRaised == \E i \in DOMAIN trace : ~trace[i].ok

\* the session held one entry less in list when the latest method was called
GrewByOne(now, then) ==
  /\ Len(now) = Len(then) + 1
  /\ SubSeq(now, 1, Len(then)) = then

\* the execute of the latest execute / executeAndWait, called on a started
\* session, is over
ExecuteCompleted ==
  /\ before # <<>>
  /\ \/ pc = "idle" /\ result.op \in {"execute", "executeAndWait"}
     \/ pc = "wait" /\ op = "executeAndWait"

ExecuteThrew ==
  pc = "idle" /\ result.op \in {"execute", "executeAndWait"} /\ result.outcome = "threw"

\* C1: every execute on a started session, returning or throwing, leaves the
\* session with exactly one step more than it had at the call; that step's
\* actionType is the decision's action when the dispatcher was entered, and it
\* is the CLICK sentinel with success = false when the call threw.
C1_OneStepPerExecute ==
  ExecuteCompleted =>
    /\ GrewByOne(Steps, before[1].steps)
    /\ DispatcherEntered =>
         actionResponse # <<>> /\ LastStep.actionType = actionResponse[1].action
    /\ ExecuteThrew => LastStep.actionType = CLICK /\ ~LastStep.success

\* an execute that went down to tier 4 and threw on a low confidence
C1_Witness ==
  /\ ExecuteCompleted /\ ExecuteThrew
  /\ result.error = ErrLowConfidence
  /\ Len(attempts) = 4
  /\ LastStep.actionType = CLICK

\* C2: while no session was ever started, execute, assert and stopSession
\* throw the precondition error, the agent holds no steps, verifications or
\* action history afterwards, and no call reaches the device or the LLM.
C2_NotStartedThrows ==
  /\ testResult = <<>> => pc \notin Tiers
  /\ (before = <<>> /\ pc = "idle" /\ result.op \in {"execute", "assert", "stopSession"}) =>
       /\ result = Threw(result.op, ErrNotStarted)
       /\ testResult = <<>>
       /\ actionHistory = <<>>
       /\ trace = <<>>

C2_Witness ==
  before = <<>> /\ testResult = <<>> /\ result.op = "execute" /\ result.outcome = "threw"

\* C3: once stopSession has returned, execute and assert fail with the
\* precondition error and the session record handed to the caller keeps its
\* steps and verificationResults.
C3_SealedAfterStop ==
  stopped =>
    /\ pc \notin Tiers
    /\ (pc = "idle" /\ result.op \in {"execute", "executeAndWait", "assert"}) =>
         /\ result = Threw(result.op, ErrNotStarted)
         /\ testResult = before

\* stopSession has returned a result and nothing was called since
C3_Witness ==
  stopped /\ result = Returned("stopSession", "none") /\ Len(Steps) = 1

\* C4: assert on a started session returns a boolean, never throws, and
\* appends exactly one verification: passed iff it returns true, failed when
\* the LLM answered and the condition is not met, error (returning false) when
\* the snapshot or the LLM call raised.
C4_AssertNeverThrows ==
  (before # <<>> /\ result.op = "assert") =>
    /\ result.outcome = "returned"
    /\ result.value \in {"true", "false"}
    /\ GrewByOne(VerificationResults, before[1].verificationResults)
    /\ LastVerification.status = PASSED <=> result.value = "true"
    /\ (~SomeCallRaised /\ result.value = "false") => LastVerification.status = FAILED
    /\ SomeCallRaised => LastVerification.status = ERROR /\ result.value = "false"

\* an assert whose LLM call raised
C4_Witness ==
  /\ before # <<>> /\ result.op = "assert"
  /\ trace = <<Ev("getPageSource"), EvFail("query")>>
  /\ LastVerification.status = ERROR

\* the latest method is executeAndWait, called on a started session, and its
\* execute is over
InWaitOfExecuteAndWait ==
  /\ before # <<>>
  /\ \/ pc = "wait" /\ op = "executeAndWait"
     \/ pc = "idle" /\ result.op = "executeAndWait"

\* C5: waitForCondition leaves the session record as it was at the call,
\* whatever its polls do; during and after the wait of executeAndWait the
\* session holds the verifications it had at the call and one step more.
C5_WaitLeavesSessionAlone ==
  /\ (op = "waitForCondition" \/ (pc = "idle" /\ result.op = "waitForCondition")) =>
       testResult = before
  /\ InWaitOfExecuteAndWait =>
       /\ VerificationResults = before[1].verificationResults
       /\ GrewByOne(Steps, before[1].steps)

\* an executeAndWait that timed out after a failed and a raising poll
C5_Witness ==
  /\ InWaitOfExecuteAndWait
  /\ result = Returned("executeAndWait", "false")
  /\ Len(wait.polls) = 2
  /\ wait.polls[1].outcome = "failed"
  /\ wait.polls[2].outcome = "raised"

\* what waitForCondition may have done so far, and how it ended
WaitReturnsPollResult ==
  /\ \A i \in DOMAIN wait.polls : wait.polls[i].at < wait.timeoutMs
  /\ (pc = "idle" /\ result.op = "waitForCondition") => result.outcome = "returned"
  /\ (/\ pc = "idle"
      /\ result.op \in {"waitForCondition", "executeAndWait"}
      /\ result.outcome = "returned") =>
       /\ result.value \in {"true", "false"}
       /\ result.value = "true" <=>
            \E i \in DOMAIN wait.polls : wait.polls[i].outcome = "passed"

\* C6: waitForCondition returns true exactly when one of its polls passed
\* (a poll that raised is not a pass) and false otherwise; every poll begins
\* before the deadline; and the loop terminates, the clock advancing by the
\* pause after every poll that did not pass.
C6_WaitForCondition ==
  /\ []WaitReturnsPollResult
  /\ (pc = "wait") ~> (pc = "idle")

\* a waitForCondition that returned true on its second poll, the first
\* having raised
C6_Witness ==
  /\ result = Returned("waitForCondition", "true")
  /\ Len(wait.polls) = 2
  /\ wait.polls[1].outcome = "raised"
  /\ wait.polls[2].outcome = "passed"

\* the calls that only execute makes
DispatcherCalls == GestureCalls \cup {"executeAction", "takeScreenshot", "settle"}

\* C7: executeAndWait polls only after its execute has returned, every
\* dispatcher call (gesture and settle wait included) coming before the first
\* poll; when its execute throws, it throws the same error and polls nothing.
C7_ExecuteBeforeWait ==
  /\ (op = "executeAndWait" /\ pc \in Tiers) => wait.polls = <<>>
  /\ (op = "executeAndWait" /\ pc = "wait") =>
       /\ GrewByOne(Steps, before[1].steps)
       /\ LastStep.method # ""
       /\ DispatcherEntered
  /\ (InWaitOfExecuteAndWait /\ wait.polls # <<>>) =>
       \A i \in DOMAIN trace :
         trace[i].call \in DispatcherCalls => i < wait.polls[1].first
  /\ (pc = "idle" /\ result.op = "executeAndWait" /\ result.outcome = "threw") =>
       wait.polls = <<>>
  /\ (InWaitOfExecuteAndWait /\ pc = "idle" /\ Len(Steps) > 0 /\ LastStep.method = "") =>
       /\ result = Threw("executeAndWait", LastStep.error)
       /\ wait.polls = <<>>

\* an executeAndWait whose execute tapped and settled and whose first poll passed
C7_Witness ==
  /\ result = Returned("executeAndWait", "true")
  /\ Calls("settle") # {}
  /\ Len(wait.polls) = 1
  /\ wait.polls[1].first = Len(trace) - 1

\* the tiers that ran were answered as in the scenario: text that does not
\* parse at tier 1, an empty tag mapping at tier 2
AllTiersFailScenario ==
  /\ pc = "idle" /\ result.op = "execute" /\ before # <<>>
  /\ Len(attempts) >= 2
  /\ attempts[1] = Attempt("tier1", "garbage", 0)
  /\ attempts[2] = Attempt("tier2", "json", 0)

\* C8: when tier 1's response does not parse and tier 2's tag mapping is
\* empty (tier 3's response not parsing and tier 4's confidence being below
\* the minimum), execute throws, the session gains one step with success =
\* false and tier 4's error message, and no gesture reaches the driver.
C8_AllTiersFailThrows ==
  AllTiersFailScenario =>
    /\ result.outcome = "threw"
    /\ GrewByOne(Steps, before[1].steps)
    /\ ~LastStep.success
    /\ LastStep.error = ErrLowConfidence
    /\ ~GestureSent

C8_Witness ==
  AllTiersFailScenario /\ ~GestureSent

\* the dispatcher was entered and its gesture failed: a driver call raised,
\* or no gesture call was made
DispatcherFailed ==
  /\ DispatcherEntered
  /\ \/ \E i \in DOMAIN trace : \E j \in Calls("executeAction") : i > j /\ ~trace[i].ok
     \/ ~GestureSent

\* C9: when the dispatcher fails to execute the gesture, the step is recorded
\* with success = false and execute throws to its caller.
C9_DispatcherFailurePropagates ==
  (pc = "idle" /\ result.op = "execute" /\ before # <<>> /\ DispatcherFailed) =>
    /\ ~LastStep.success
    /\ result.outcome = "threw"

\* a click decision without target or coordinates reached the dispatcher
C9_Witness ==
  /\ pc = "idle" /\ result.op = "execute" /\ before # <<>> /\ DispatcherFailed
  /\ LastStep.error = ErrNoTarget

\* the condition under which the cascade leaves tier 1 for tier 2
FallbackCondition(vc, decision, elements) ==
  /\ vc.enabled
  /\ \/ vc.alwaysUseVision
     \/ /\ vc.fallbackOnElementNotFound
        /\ decision.elementId # Undefined
        /\ \A i \in DOMAIN elements : elements[i].elementId # decision.elementId
     \/ /\ vc.fallbackOnLowConfidence
        /\ decision.confidence # NoConfidence
        /\ decision.confidence < vc.confidenceThreshold
     \/ decision.action = "error"

\* tier 1 produced a decision and no other tier ran
OnlyTier1Ran ==
  /\ pc = "idle" /\ result.op = "execute" /\ before # <<>>
  /\ Len(attempts) = 1
  /\ attempts[1].tier = "tier1"
  /\ attempts[1].kind \in {"json", "garbage"}

\* C10: in cascading mode, once tier 1 has its decision, the engine goes to
\* tier 2 exactly when vision is enabled and alwaysUseVision is set, or the
\* decision names an elementId missing from the tier-1 snapshot (with
\* fallbackOnElementNotFound), or its confidence is defined and below
\* confidenceThreshold (with fallbackOnLowConfidence), or its action is
\* "error"; otherwise that decision is dispatched after one LLM query.
C10_FallbackExactlyWhen ==
  /\ pc = "tier2" =>
       /\ actionResponse # <<>>
       /\ currentState # <<>>
       /\ FallbackCondition(visionConfig, actionResponse[1],
                            ElementsOf(currentState[1].screen))
  /\ OnlyTier1Ran =>
       /\ ~FallbackCondition(visionConfig, actionResponse[1],
                             ElementsOf(currentState[1].screen))
       /\ result.outcome = "returned"
       /\ DispatcherEntered
       /\ LastStep.method = HIERARCHY
       /\ LastStep.actionType = actionResponse[1].action
       /\ Cardinality(Calls("query") \cup Calls("queryWithVision")) = 1

\* a decision without confidence is dispatched from tier 1 although low
\* confidences fall back
C10_Witness ==
  /\ OnlyTier1Ran
  /\ visionConfig.enabled /\ visionConfig.fallbackOnLowConfidence
  /\ actionResponse[1].confidence = NoConfidence
  /\ Calls("tap") # {}

\* tier 1 has just produced its decision: the cascade stands at tier 2, or
\* the decision was dispatched from tier 1
AfterTier1Decision == pc = "tier2" \/ OnlyTier1Ran

\* C11: a tier-1 response without confidence gives a decision whose
\* confidence is undefined, and such a decision leaves tier 1 for tier 2 only
\* for a reason other than its confidence; a tier-1 response that does not
\* parse gives action "error" with confidence 0, and with vision enabled the
\* cascade then goes on to tier 2.
C11_ConfidencePropagated ==
  /\ \A resp \in Tier1Responses :
       /\ resp.kind = "json" => GenerateAction(resp).confidence = resp.confidence
       /\ resp.kind = "garbage" =>
            /\ GenerateAction(resp).action = "error"
            /\ GenerateAction(resp).confidence = 0
  /\ (pc = "tier2" /\ actionResponse[1].confidence = NoConfidence) =>
       \/ visionConfig.alwaysUseVision
       \/ /\ visionConfig.fallbackOnElementNotFound
          /\ actionResponse[1].elementId # Undefined
          /\ Find(ElementsOf(currentState[1].screen), actionResponse[1].elementId) = <<>>
       \/ actionResponse[1].action = "error"
  /\ (AfterTier1Decision /\ attempts[1].kind = "garbage") =>
       /\ actionResponse[1].action = "error"
       /\ actionResponse[1].confidence = 0
       /\ visionConfig.enabled => pc = "tier2"

\* with low-confidence fallback on, a click on a resolved element whose
\* response gave no confidence is dispatched from tier 1
C11_Witness ==
  /\ OnlyTier1Ran
  /\ visionConfig.enabled /\ visionConfig.fallbackOnLowConfidence
  /\ attempts[1].kind = "json"
  /\ actionResponse[1].confidence = NoConfidence
  /\ actionResponse[1].elementId = "2"
  /\ LastStep.success

\* the number of calls named name made by the latest public method
CountCalls(name) == Cardinality(Calls(name))

\* C12: visionConfig.enabled, when given, decides the vision toggle, and
\* enableVisionFallback (true when absent) decides it otherwise; with the
\* toggle false and pureVisionOnly off, an execute stays at tier 1: at most
\* one snapshot, at most one text-only query, no vision query.
C12_ToggleOffStaysAtTier1 ==
  /\ config.enabled # Undefined => visionConfig.enabled = (config.enabled = "true")
  /\ config.enabled = Undefined =>
       visionConfig.enabled = (config.enableVisionFallback # "false")
  /\ (~visionConfig.enabled /\ ~visionConfig.pureVisionOnly) =>
       /\ pc \notin {"tier2", "tier3", "tier4"}
       /\ \A i \in DOMAIN attempts : attempts[i].tier = "tier1"
       /\ Len(attempts) <= 1
       /\ CountCalls("getPageSource") <= 1
       /\ CountCalls("query") <= 1
       /\ CountCalls("queryWithVision") = 0

\* visionConfig.enabled = false against enableVisionFallback = true, and a
\* tier-1 response that does not parse: the error decision is dispatched
C12_Witness ==
  /\ config.enabled = "false" /\ config.enableVisionFallback = "true"
  /\ ~visionConfig.pureVisionOnly
  /\ OnlyTier1Ran
  /\ attempts[1].kind = "garbage"
  /\ CountCalls("query") = 1
  /\ DispatcherEntered

\* the position of a tier in the cascade
TierRank(tier) ==
  CASE tier = "tier1" -> 1 [] tier = "tier2" -> 2 [] tier = "tier3" -> 3 [] tier = "tier4" -> 4

\* an execute is under way, or was the latest public method
InExecute == pc \in Tiers \/ (pc = "idle" /\ result.op = "execute")

QueryCalls == Calls("query") \cup Calls("queryWithVision")
GestureIndices == {i \in DOMAIN trace : trace[i].call \in GestureCalls}

\* C13: within one execute the tiers are attempted in increasing order, each
\* at most once; so at most four snapshots and at most four LLM queries are
\* issued, all of them before the gesture.
C13_TiersInOrder ==
  /\ \A i, j \in DOMAIN attempts :
       i < j => TierRank(attempts[i].tier) < TierRank(attempts[j].tier)
  /\ (pc \in Tiers /\ attempts # <<>>) =>
       TierRank(attempts[Len(attempts)].tier) < TierRank(pc)
  /\ Len(attempts) <= 4
  /\ InExecute =>
       /\ CountCalls("getPageSource") <= Len(attempts)
       /\ Cardinality(QueryCalls) <= Len(attempts)
       /\ \A g \in GestureIndices :
            \A i \in Calls("getPageSource") \cup QueryCalls : i < g

\* the four tiers ran, one snapshot each, and the tier-4 decision was sent
C13_Witness ==
  /\ pc = "idle" /\ result.op = "execute"
  /\ Len(attempts) = 4
  /\ CountCalls("getPageSource") = 4
  /\ GestureSent

\* the latest execute reached the dispatcher
ExecuteDispatched == pc = "idle" /\ result.op = "execute" /\ DispatcherEntered

\* C14: with pureVisionOnly set, execute runs tier 4 alone; when it reaches
\* the dispatcher it has taken exactly one snapshot and issued exactly one
\* query, a vision query, both before the dispatcher, and the decision and
\* the recorded step carry the method pure-vision.
C14_PureVisionOnlySkipsCascade ==
  visionConfig.pureVisionOnly =>
    /\ pc \notin {"tier1", "tier2", "tier3"}
    /\ Len(attempts) <= 1
    /\ \A i \in DOMAIN attempts : attempts[i].tier = "tier4"
    /\ InExecute => CountCalls("query") = 0
    /\ ExecuteDispatched =>
         /\ CountCalls("getPageSource") = 1
         /\ CountCalls("queryWithVision") = 1
         /\ \A i \in Calls("getPageSource") \cup Calls("queryWithVision") :
              \A d \in Calls("executeAction") : i < d
         /\ actionResponse[1].method = PURE_VISION
         /\ LastStep.method = PURE_VISION

\* pureVisionOnly, one tier-4 decision, its tap sent
C14_Witness ==
  /\ visionConfig.pureVisionOnly
  /\ ExecuteDispatched
  /\ attempts = <<Attempt("tier4", "json", 0)>>
  /\ LastStep.success
  /\ Calls("tap") # {}

\* C15: with pureVisionOnly set, no getPageSource call reaches the device
\* between the start of execute and the gesture.
C15_NoTreeQueryInPureVision ==
  (visionConfig.pureVisionOnly /\ InExecute) =>
    \A i \in Calls("getPageSource") : \E g \in GestureIndices : g < i

\* pureVisionOnly: the tier-4 snapshot read the page source before the tap
C15_Witness ==
  /\ visionConfig.pureVisionOnly
  /\ ExecuteDispatched
  /\ Calls("tap") # {}
  /\ trace[1] = Ev("getPageSource")

\* the answer a vision parser returns for a response it cannot use: one that
\* does not parse, or names a tag id or grid label its snapshot lacks
UnusableAnswer(decision) ==
  decision.action = "error" /\ decision.confidence = ParseErrorConfidence

\* the latest execute ended at tier 2 or tier 3 with that tier's decision
EndedAtTier2Or3 ==
  /\ pc = "idle" /\ result.op = "execute"
  /\ attempts # <<>>
  /\ attempts[Len(attempts)].tier \in {"tier2", "tier3"}
  /\ attempts[Len(attempts)].kind \in {"json", "garbage"}
  /\ actionResponse # <<>>

\* C16: at tier 2 and at tier 3, a response that does not parse, or names a
\* tag id or grid label absent from the tier's snapshot (an empty tag mapping
\* included), is never handed to the dispatcher.
C16_UnusableAnswerNotDispatched ==
  EndedAtTier2Or3 =>
    /\ ~(UnusableAnswer(actionResponse[1]) /\ DispatcherEntered)
    /\ attempts[Len(attempts)].kind # "garbage"
    /\ attempts[Len(attempts)].tier = "tier2" => attempts[Len(attempts)].tags > 0

\* tier 3 got a response that does not parse and its error decision went to
\* the dispatcher; execute returned
C16_Witness ==
  /\ EndedAtTier2Or3
  /\ attempts[Len(attempts)] = Attempt("tier3", "garbage", 0)
  /\ actionResponse[1] = ErrorDecision(GRID_OVERLAY)
  /\ DispatcherEntered
  /\ result.outcome = "returned"

\* attempt i of the latest execute raised: its snapshot or its query failed
Raised(i) == attempts[i].kind \in {"raise", "none"}

\* the error a raising attempt throws
ErrorOf(i) == IF attempts[i].kind = "none" THEN ErrTransport ELSE ErrLLM

\* C17: when tier 3 raises, tier 4 is attempted exactly when
\* pureVisionConfig.enabled is true; otherwise execute throws the tier-3
\* error and no gesture is dispatched.
C17_Tier4OnlyWhenPureVisionEnabled ==
  \A i \in DOMAIN attempts :
    (attempts[i].tier = "tier3" /\ Raised(i)) =>
      IF visionConfig.pureVisionEnabled
      THEN IF i = Len(attempts) THEN pc = "tier4" ELSE attempts[i + 1].tier = "tier4"
      ELSE /\ i = Len(attempts)
           /\ pc = "idle"
           /\ result = Threw("execute", ErrorOf(i))
           /\ ~DispatcherEntered
           /\ ~GestureSent
           /\ LastStep = Step(CLICK, Undefined, FALSE, ErrorOf(i), "")

\* pure vision disabled and the tier-3 query raised: execute threw that error
C17_Witness ==
  /\ ~visionConfig.pureVisionEnabled
  /\ Len(attempts) = 3
  /\ attempts[3] = Attempt("tier3", "raise", 0)
  /\ result = Threw("execute", ErrLLM)

\* pure vision enabled and the tier-3 query raised: tier 4 is next
C17_WitnessTier4 ==
  /\ visionConfig.pureVisionEnabled
  /\ Len(attempts) = 3
  /\ attempts[3] = Attempt("tier3", "raise", 0)
  /\ pc = "tier4"

\* the latest execute ended at tier 4 with a decision of the pure-vision
\* parser and returned
ReturnedFromTier4 ==
  /\ pc = "idle" /\ result = Returned("execute", "none")
  /\ attempts # <<>>
  /\ attempts[Len(attempts)].tier = "tier4"
  /\ attempts[Len(attempts)].kind \in {"json", "garbage"}
  /\ actionResponse # <<>>
  /\ actionResponse[1].method = PURE_VISION

\* C18: a tier-4 decision whose confidence c satisfies
\* 0 <= c < minimumConfidence makes execute throw: execute never returns
\* from tier 4 with such a decision.
C18_LowConfidenceEndsCascade ==
  ReturnedFromTier4 =>
    ~(/\ 0 <= actionResponse[1].confidence
      /\ actionResponse[1].confidence < visionConfig.minimumConfidence)

\* tier 4 got a response without a usable location: its decision carries
\* confidence 0, went to the dispatcher, and execute returned
C18_Witness ==
  /\ ReturnedFromTier4
  /\ actionResponse[1] = ErrorDecision(PURE_VISION)
  /\ DispatcherEntered
  /\ ~LastStep.success

\* attempt i was followed by the tier after it
TriedNextTier(i) ==
  IF i = Len(attempts)
  THEN pc \in Tiers /\ TierRank(pc) = TierRank(attempts[i].tier) + 1
  ELSE TierRank(attempts[i + 1].tier) = TierRank(attempts[i].tier) + 1

\* C19: in cascading mode with vision enabled, a tier 1, 2 or 3 whose
\* snapshot or LLM query raises is followed by the next enabled tier
\* (tier 4 being enabled by pureVisionConfig.enabled).
C19_RaisingTierIsAbandoned ==
  (visionConfig.enabled /\ ~visionConfig.pureVisionOnly) =>
    \A i \in DOMAIN attempts :
      (/\ Raised(i)
       /\ \/ attempts[i].tier \in {"tier1", "tier2"}
          \/ attempts[i].tier = "tier3" /\ visionConfig.pureVisionEnabled)
      => TriedNextTier(i)

\* vision enabled, the tier-1 query raised, and execute threw that error
\* without trying tier 2
C19_Witness ==
  /\ visionConfig.enabled /\ ~visionConfig.pureVisionOnly
  /\ attempts = <<Attempt("tier1", "raise", 0)>>
  /\ result = Threw("execute", ErrLLM)
  /\ CountCalls("queryWithVision") = 0

\* C20: in cascading mode with vision enabled, every decision handed to the
\* dispatcher is a non-error decision that passes the fallback predicate:
\* with fallbackOnLowConfidence on, its confidence, when defined, is not
\* below confidenceThreshold.
C20_DispatchedDecisionPasses ==
  (visionConfig.enabled /\ ~visionConfig.pureVisionOnly /\ ExecuteDispatched) =>
    /\ actionResponse[1].action # "error"
    /\ (visionConfig.fallbackOnLowConfidence
        /\ actionResponse[1].confidence # NoConfidence) =>
         actionResponse[1].confidence >= visionConfig.confidenceThreshold

\* a tier-2 click with a confidence below the threshold was tapped
C20_Witness ==
  /\ visionConfig.enabled /\ ~visionConfig.pureVisionOnly
  /\ visionConfig.fallbackOnLowConfidence
  /\ ExecuteDispatched
  /\ attempts[Len(attempts)].tier = "tier2"
  /\ actionResponse[1].action = "click"
  /\ actionResponse[1].method = VISION_TAGGING
  /\ actionResponse[1].confidence < visionConfig.confidenceThreshold
  /\ Calls("tap") # {}

\* C21: with vision enabled and alwaysUseVision set, execute issues no
\* text-only (tier-1) LLM query, and the decision it dispatches never has
\* the method hierarchy.
C21_AlwaysUseVisionSkipsHierarchy ==
  (visionConfig.enabled /\ visionConfig.alwaysUseVision /\ InExecute) =>
    /\ CountCalls("query") = 0
    /\ ExecuteDispatched =>
         /\ actionResponse[1].method # HIERARCHY
         /\ LastStep.method # HIERARCHY

\* alwaysUseVision: the text-only query of tier 1 was issued all the same,
\* and the tier-2 decision was then tapped
C21_Witness ==
  /\ visionConfig.enabled /\ visionConfig.alwaysUseVision
  /\ ~visionConfig.pureVisionOnly
  /\ ExecuteDispatched
  /\ CountCalls("query") = 1
  /\ Len(attempts) = 2
  /\ attempts[1].kind = "json"
  /\ LastStep.method = VISION_TAGGING
  /\ Calls("tap") # {}

\* the tools that need an active session
SessionTools == {"mobile_execute", "mobile_assert", "mobile_get_state", "mobile_stop_session"}

\* this step is the entry of the handler of a tool call
ToolCalled(tool) == mcp.step = "idle" /\ mcp' # mcp /\ mcp'.tool = tool

\* C22: a call of mobile_execute, mobile_assert, mobile_get_state or
\* mobile_stop_session made while no session is active returns an error
\* result and leaves the agent untouched; the session becomes active by a
\* successful mobile_start_session only (a failed one changes nothing) and
\* inactive by a successful mobile_stop_session; no other tool changes it.
C22_ServerGuardsSession ==
  [][ /\ \A tool \in SessionTools :
          (ToolCalled(tool) /\ ~mcp.sessionActive) =>
            /\ mcp'.isError /\ ~mcp'.agentCalled
            /\ mcp'.step = "idle"
            /\ ~mcp'.sessionActive
            /\ UNCHANGED agentVars
      /\ ToolCalled("mobile_start_session") =>
            mcp'.sessionActive = (mcp.sessionActive \/ ~mcp'.isError)
      /\ ToolCalled("mobile_stop_session") =>
            mcp'.sessionActive = (mcp.sessionActive /\ mcp'.isError)
      /\ mcp'.tool \notin {"mobile_start_session", "mobile_stop_session"} =>
            mcp'.sessionActive = mcp.sessionActive
    ]_vars

\* after a stop, mobile_execute was refused by the server although the
\* agent still holds its testResult
C22_Witness ==
  /\ mcp.tool = "mobile_execute"
  /\ mcp.isError /\ ~mcp.agentCalled
  /\ mcp.agent /\ ~mcp.sessionActive
  /\ stopped /\ HasSession(testResult)
  /\ result.op = "stopSession"

\* samples i - 1 and i of the wait are two successful reads of the same source
IdenticalPair(i) ==
  /\ settle.samples[i].src # RaisedRead
  /\ settle.samples[i - 1].src = settle.samples[i].src

\* C23: the UI-settle wait returns as soon as two consecutive samples are
\* identical, whatever is left of its timeout: a sample equal to the one
\* before it is the last sample, and the wait has returned.
C23_SettlesOnTwoIdenticalSamples ==
  \A i \in 2..Len(settle.samples) :
    IdenticalPair(i) => (i = Len(settle.samples) /\ settle.outcome = "returned")

\* a static UI: the wait returned on its third sample, before its deadline
C23_Witness ==
  /\ settle.outcome = "returned"
  /\ Len(settle.samples) = 3
  /\ \A i \in 1..3 : settle.samples[i].src = "a"
  /\ settle.elapsed < settle.timeoutMs

\* every sample of the wait began before the deadline, and the wait has not
\* thrown
SettleTimeboxed ==
  /\ \A i \in DOMAIN settle.samples : settle.samples[i].at < settle.timeoutMs
  /\ settle.outcome # "threw"
  /\ settle.pc = "idle" => settle.outcome \in {"none", "returned"}

\* C24: the UI-settle wait begins no sample once its deadline has passed,
\* never throws, and always returns, the clock advancing by the pause of
\* every turn, even if the page source never stabilises or every read fails.
C24_SettleIsTimeboxed ==
  /\ []SettleTimeboxed
  /\ (settle.pc = "loop") ~> (settle.pc = "idle")

\* every read failed and the wait returned at its deadline
C24_Witness ==
  /\ settle.outcome = "returned"
  /\ Len(settle.samples) >= 2
  /\ \A i \in DOMAIN settle.samples : settle.samples[i].src = RaisedRead
  /\ settle.elapsed >= settle.timeoutMs

\* C25: for every grid size N from 5 to 20 the gridMap has exactly N * N
\* entries, one for each of the first N letters combined with each of the
\* numbers 1..N.
C25_GridMapHasAllLabels ==
  grid.done =>
    /\ Cardinality(DOMAIN grid.gridMap) = grid.gridSize * grid.gridSize
    /\ DOMAIN grid.gridMap =
         {Letters[c] \o ToString(r) : c \in 1..grid.gridSize, r \in 1..grid.gridSize}

\* a 20 x 20 grid: 400 entries, T20 the last of them
C25_Witness ==
  /\ grid.done
  /\ grid.gridSize = 20
  /\ Cardinality(DOMAIN grid.gridMap) = 400
  /\ "T20" \in DOMAIN grid.gridMap

\* C26: every coordinate stored in gridMap lies inside the window:
\* 0 <= x < logicalWidth and 0 <= y < logicalHeight, for every cell, every
\* grid size and every pair of screenshot and window sizes.
C26_GridInsideWindow ==
  grid.done =>
    \A l \in DOMAIN grid.gridMap :
      /\ 0 <= grid.gridMap[l].x /\ grid.gridMap[l].x < grid.logicalWidth
      /\ 0 <= grid.gridMap[l].y /\ grid.gridMap[l].y < grid.logicalHeight

\* a screenshot scaled 3 by 2: the last cell lies near the window's corner
C26_Witness ==
  /\ grid.done
  /\ grid.actualWidth = 3 * grid.logicalWidth
  /\ grid.actualHeight = 2 * grid.logicalHeight
  /\ grid.gridSize = 10
  /\ grid.gridMap["J10"].x > grid.logicalWidth - grid.logicalWidth \div 10
  /\ grid.gridMap["J10"].y > grid.logicalHeight - grid.logicalHeight \div 10

\* v is the exact centre (i + 0.5) * logical / N rounded down by at most 1
WithinOneBelowCentre(v, i, N, logical) ==
  /\ 2 * N * v <= (2 * i + 1) * logical
  /\ (2 * i + 1) * logical <= 2 * N * (v + 1)

\* C27: the gridMap value of every cell (col, row) is the cell's exact
\* logical centre rounded down by at most 1 unit on each axis; for a window
\* of 390 x 844, a screenshot of 1284 x 2778 and N = 10, E5 is (175, 379).
C27_GridCentreWithinOne ==
  grid.done =>
    /\ \A col, row \in 0..(grid.gridSize - 1) :
         /\ WithinOneBelowCentre(grid.gridMap[GridLabel(col, row)].x, col,
                                 grid.gridSize, grid.logicalWidth)
         /\ WithinOneBelowCentre(grid.gridMap[GridLabel(col, row)].y, row,
                                 grid.gridSize, grid.logicalHeight)
    /\ (/\ grid.gridSize = 10
        /\ <<grid.actualWidth, grid.actualHeight>> = <<ScreenshotWidth, ScreenshotHeight>>
        /\ <<grid.logicalWidth, grid.logicalHeight>> = <<WindowWidth, WindowHeight>>) =>
         grid.gridMap["E5"] = [x |-> 175, y |-> 379]

\* window 320 wide, screenshot 800 wide, N = 7: the centre of column G is
\* 297.14 and the gridMap holds 296
C27_Witness ==
  /\ grid.done
  /\ grid.gridSize = 7 /\ grid.actualWidth = 800 /\ grid.logicalWidth = 320
  /\ grid.gridMap["G1"].x = 296

\* the answer being parsed carries a location whose two fields are numbers
NumericLocation ==
  /\ pureVision.resp[1].kind = "json"
  /\ pureVision.resp[1].location # <<>>
  /\ pureVision.resp[1].location[1].x_percent # NoPercent
  /\ pureVision.resp[1].location[1].y_percent # NoPercent

\* C28: a tier-4 response with a numeric location {x_percent, y_percent} on
\* a window of W x H yields the coordinates x = floor(W * x_percent / 100)
\* and y = floor(H * y_percent / 100); a response without a numeric location
\* yields an error decision with confidence 0 and no coordinates.
C28_PureVisionCoordinates ==
  pureVision.decision # <<>> =>
    IF NumericLocation
    THEN pureVision.decision[1].coordinates =
           << [x |-> (pureVision.width * pureVision.resp[1].location[1].x_percent) \div 100,
               y |-> (pureVision.height * pureVision.resp[1].location[1].y_percent) \div 100] >>
    ELSE /\ pureVision.decision[1].action = "error"
         /\ pureVision.decision[1].confidence = 0
         /\ pureVision.decision[1].coordinates = <<>>

\* 29 percent of a window 400 wide: 116 by the formula, 115 from the parser
C28_Witness ==
  /\ pureVision.decision # <<>>
  /\ NumericLocation
  /\ pureVision.width = 400
  /\ pureVision.resp[1].location[1].x_percent = 29
  /\ pureVision.decision[1].coordinates[1].x = 115

\* the tier whose decision the latest execute dispatched
DispatchingTier == attempts[Len(attempts)].tier

\* C29: after a successful decision of a tier N >= 2 the targetElement passed
\* to the dispatcher and recorded in the step is undefined or an element of
\* the snapshot that tier took, the one its decision names; an element
\* resolved against an earlier tier's snapshot is never carried over.
C29_TargetFromSameSnapshot ==
  (ExecuteDispatched /\ TierRank(DispatchingTier) >= 2) =>
    /\ targetElement = Resolve(ElementsOf(currentState[1].screen), actionResponse[1])
    /\ targetElement # <<>> =>
         \E i \in DOMAIN ElementsOf(currentState[1].screen) :
           targetElement[1] = ElementsOf(currentState[1].screen)[i]
    /\ LastStep.targetElementId =
         IF targetElement = <<>> THEN Undefined ELSE targetElement[1].elementId

\* tier 1 resolved an element of one snapshot and fell back; tier 3 dispatched
\* a grid decision, which names no element, without a target
C29_Witness ==
  /\ ExecuteDispatched
  /\ Len(attempts) = 3
  /\ attempts[1].kind = "json"
  /\ DispatchingTier = "tier3"
  /\ actionResponse[1].coordinates # <<>>
  /\ targetElement = <<>>
  /\ LastStep.targetElementId = Undefined

SnapshotCalls == Calls("getPageSource")
SettleCalls == Calls("settle")

\* the gesture calls the driver carried out
GesturesDone == {i \in GestureIndices : trace[i].ok}

C30_WitnessTypeText ==
  /\ ExecuteDispatched
  /\ Len(attempts) = 4
  /\ LastStep.actionType = "type_text"
  /\ LastStep.success
  /\ Cardinality(SettleCalls) = 2

\* executeAction has returned from the call made on it alone
Dispatched == dispatcher.step # <<>>

\* the calls of the dispatcher that carry a point
PointCalls == {i \in DOMAIN dispatcher.calls : dispatcher.calls[i].x # -1}

PointOf(i) == [x |-> dispatcher.calls[i].x, y |-> dispatcher.calls[i].y]

\* C31: for tap/click, double_tap, long_press, type_text, pinch and zoom the
\* gesture goes to the explicit coordinates whenever coordinates are given,
\* an element being resolved or not; the centre of the element's bounds is
\* used only when no coordinates are given.
C31_ExplicitCoordinatesWin ==
  (Dispatched /\ dispatcher.actionType \in ActionTypes \ {"swipe", "scroll"}) =>
    \A i \in PointCalls :
      IF dispatcher.parameters.coordinates # <<>>
      THEN PointOf(i) = dispatcher.parameters.coordinates[1]
      ELSE /\ dispatcher.element # <<>>
           /\ <<PointOf(i)>> = GetElementCenter(dispatcher.element[1])

\* a long press with an element that has bounds and with coordinates: the
\* press goes to the coordinates, away from the element's centre
C31_Witness ==
  /\ Dispatched
  /\ dispatcher.actionType = "long_press"
  /\ dispatcher.element # <<>>
  /\ GetElementCenter(dispatcher.element[1]) # <<>>
  /\ dispatcher.parameters.coordinates # <<>>
  /\ GetElementCenter(dispatcher.element[1]) # dispatcher.parameters.coordinates
  /\ \E i \in PointCalls :
       /\ dispatcher.calls[i].call = "press"
       /\ dispatcher.calls[i].ok
       /\ PointOf(i) = dispatcher.parameters.coordinates[1]

\* the tags of the latest snapshot that an answer of tier 2 can name
ValidTags == RespTagIds \cap (1..Len(TagMapping(ElementsOf(currentState[1].screen))))

\* the decision of tier 2 that the latest execute dispatched names a tag
Tier2TagDispatched ==
  /\ ExecuteDispatched
  /\ DispatchingTier = "tier2"
  /\ actionResponse[1].elementId # Undefined

\* C32: a tier-2 decision with a valid tag id is dispatched at the centre of
\* the bounds of the element that the tagMapping of tier 2's own snapshot
\* assigns to the tag, with method vision-tagging, and with confidence 0.8
\* when the answer gives none.
C32_TagDecisionAtTaggedElement ==
  Tier2TagDispatched =>
    /\ \E t \in ValidTags :
         LET tagged == TagMapping(ElementsOf(currentState[1].screen))[t]
         IN /\ actionResponse[1].elementId = tagged.elementId
            /\ actionResponse[1].coordinates = GetElementCenter(tagged)
            /\ targetElement = <<tagged>>
            /\ \A i \in Calls("tap") :
                 <<[x |-> trace[i].x, y |-> trace[i].y]>> = GetElementCenter(tagged)
    /\ actionResponse[1].method = VISION_TAGGING
    /\ LastStep.method = VISION_TAGGING
    /\ actionResponse[1].confidence \in
         (RespConfidences \ {NoConfidence}) \cup {DefaultTaggingConfidence}

\* tier 1 fell back, tier 2 named tag 2 and gave no confidence: the tap goes
\* to the centre of the third element with confidence 0.8
C32_Witness ==
  /\ Tier2TagDispatched
  /\ attempts[1].kind = "json"
  /\ actionResponse[1].action = "click"
  /\ actionResponse[1].elementId = "3"
  /\ actionResponse[1].confidence = DefaultTaggingConfidence
  /\ \E i \in Calls("tap") : trace[i].ok /\ trace[i].x = 20 /\ trace[i].y = 30
  /\ LastStep.success

\* the sources of the reads of the UI-settle wait that did not raise, in order
SuccessfulSources ==
  LET good == SelectSeq(settle.samples, LAMBDA sample : sample.src # RaisedRead)
  IN [i \in 1..Len(good) |-> good[i].src]

\* how many of the latest successful reads, before the last one, equal it
IdenticalRun ==
  LET srcs == SuccessfulSources
      n == Len(srcs)
      differing == {i \in 1..n : srcs[i] # srcs[n]}
      start == IF differing = {} THEN 1
               ELSE (CHOOSE i \in differing : \A j \in differing : j <= i) + 1
  IN IF n = 0 THEN 0 ELSE n - start

\* lastSource and stable are what the successful reads alone make them
SettleCountsSuccessfulReads ==
  /\ settle.lastSource = IF SuccessfulSources = <<>> THEN <<>>
                         ELSE <<SuccessfulSources[Len(SuccessfulSources)]>>
  /\ settle.stable = IdenticalRun

\* the turn of the loop just taken read a page source that raised
FailedReadStep ==
  /\ Len(settle'.samples) = Len(settle.samples) + 1
  /\ settle'.samples[Len(settle'.samples)].src = RaisedRead

\* C33: during a UI-settle wait a page-source read that raises is skipped: it
\* neither ends the wait nor resets or advances the count of identical
\* samples, and the next successful sample is compared with the last
\* successful one.
C33_FailedReadIsSkipped ==
  /\ []SettleCountsSuccessfulReads
  /\ [][FailedReadStep => /\ settle'.pc = "loop"
                          /\ settle'.outcome = "none"
                          /\ settle'.stable = settle.stable
                          /\ settle'.lastSource = settle.lastSource]_vars

\* a, a, a failed read, a: the wait returns on the fourth sample, the failed
\* read having left the count at one
C33_Witness ==
  /\ settle.outcome = "returned"
  /\ Len(settle.samples) = 4
  /\ settle.samples[3].src = RaisedRead
  /\ \A i \in {1, 2, 4} : settle.samples[i].src = "a"
  /\ settle.stable = DefaultStableIterations

\* the calls of the dispatcher that belong to the gesture and its settle wait
GesturePart ==
  SelectSeq(dispatcher.calls,
            LAMBDA e : e.call \notin {"executeAction", "takeScreenshot", "writeFileSync"})

\* the gesture of the dispatcher's call, on its own
GestureAlone ==
  GestureWith(dispatcher.actionType, dispatcher.element, dispatcher.parameters,
              dispatcher.fails.gesture)

\* C34: a failure to capture or persist the before or after screenshot never
\* changes a step's outcome: the gesture is attempted all the same, and
\* step.success is true exactly when the gesture and its settle wait did not
\* raise.
C34_ScreenshotFailuresAreIgnored ==
  Dispatched =>
    /\ GesturePart = GestureAlone.calls
    /\ dispatcher.step[1].success = (GestureAlone.error = "")
    /\ dispatcher.step[1].error = GestureAlone.error
    /\ dispatcher.step[1].success => \A i \in DOMAIN GesturePart : GesturePart[i].ok

\* both screenshots fail, the tap and its settle wait go through, the step
\* succeeds
C34_Witness ==
  /\ Dispatched
  /\ dispatcher.actionType = "click"
  /\ dispatcher.fails.before
  /\ dispatcher.fails.after
  /\ \E i \in DOMAIN dispatcher.calls :
       /\ dispatcher.calls[i].call = "takeScreenshot"
       /\ ~dispatcher.calls[i].ok
       /\ \E j \in DOMAIN dispatcher.calls :
            j > i /\ dispatcher.calls[j].call = "tap" /\ dispatcher.calls[j].ok
  /\ dispatcher.step[1].success

\* the screenshot before is taken, writing it to ARTIFACTS_DIR raises, the
\* double tap fails on the driver: the step fails with the driver's error
C34_WitnessPersist ==
  /\ Dispatched
  /\ dispatcher.actionType = "double_tap"
  /\ dispatcher.fails.persist = "raise"
  /\ \E i \in DOMAIN dispatcher.calls :
       dispatcher.calls[i].call = "writeFileSync" /\ ~dispatcher.calls[i].ok
  /\ \E i \in DOMAIN dispatcher.calls :
       dispatcher.calls[i].call = "tap" /\ ~dispatcher.calls[i].ok
  /\ ~dispatcher.step[1].success

\* the point of the dispatcher's i-th call lies in [0, width] x [0, height]
InsideWindow(i) ==
  /\ 0 <= dispatcher.calls[i].x /\ dispatcher.calls[i].x <= WindowWidth
  /\ 0 <= dispatcher.calls[i].y /\ dispatcher.calls[i].y <= WindowHeight

\* C39: for swipe and scroll in every direction and at every distance in
\* [0, 0.5], the press point and the move-to point sent to the driver both
\* lie inside the window rectangle [0, width] x [0, height].
C39_SwipeInsideWindow ==
  (Dispatched /\ dispatcher.actionType \in {"swipe", "scroll"}) =>
    \A i \in PointCalls : InsideWindow(i)

\* a swipe to the left over half the window: the press is at x = 617 on a
\* window 390 wide and the move goes to x = -227
C39_Witness ==
  /\ Dispatched
  /\ dispatcher.actionType = "swipe"
  /\ dispatcher.parameters.direction = "left"
  /\ dispatcher.parameters.distance = 50
  /\ dispatcher.step[1].success
  /\ \E i \in PointCalls :
       /\ dispatcher.calls[i].call = "press"
       /\ dispatcher.calls[i].x = 617
       /\ dispatcher.calls[i].x > WindowWidth
  /\ \E i \in PointCalls :
       /\ dispatcher.calls[i].call = "moveTo"
       /\ dispatcher.calls[i].x = -227

\* the latest execute handed the dispatcher an action outside ActionType
UnsupportedDispatched ==
  /\ ExecuteDispatched
  /\ actionResponse[1].action \notin ActionTypes

\* C37: a decision whose action is "error", or any other action the
\* dispatcher does not support, causes no gesture call on the driver: it is
\* recorded as a step with success = false, and execute returns without
\* throwing.
C37_UnsupportedActionSendsNoGesture ==
  UnsupportedDispatched =>
    /\ GestureIndices = {}
    /\ SettleCalls \cup Calls("pause") = {}
    /\ \A e \in Calls("executeAction") :
         \A i \in DOMAIN trace : i > e => trace[i].call = "takeScreenshot"
    /\ LastStep.actionType = actionResponse[1].action
    /\ ~LastStep.success
    /\ LastStep.error = ErrUnsupported
    /\ result = Returned("execute", "none")

\* tier 1 answers with confidence 0.95, the element "2" and an action outside
\* the enum: the decision is dispatched and recorded as a failed step
C37_Witness ==
  /\ UnsupportedDispatched
  /\ actionResponse[1].action = "press_back"
  /\ DispatchingTier = "tier1"
  /\ targetElement # <<>>
  /\ Len(Steps) = 1
  /\ ~LastStep.success
  /\ result = Returned("execute", "none")

\* the error decision of tier 2's parser, dispatched after tier 1 fell back
C37_WitnessError ==
  /\ UnsupportedDispatched
  /\ actionResponse[1].action = "error"
  /\ DispatchingTier = "tier2"
  /\ ~LastStep.success

\* pureVisionOnly is set while the vision master toggle is off
PureVisionOnlyVisionOff == visionConfig.pureVisionOnly /\ ~visionConfig.enabled

\* C38: pureVisionOnly takes effect independently of the vision master
\* toggle: with pureVisionOnly set and visionConfig.enabled false, execute
\* still runs tier 4 only; tier 1 is not run and no text query is made, and
\* once the tier-4 snapshot is taken a vision query is issued.
C38_PureVisionOnlyIgnoresToggle ==
  (PureVisionOnlyVisionOff /\ InExecute) =>
    /\ pc \in {"tier4", "idle"}
    /\ \A i \in DOMAIN attempts : attempts[i].tier = "tier4"
    /\ Len(attempts) <= 1
    /\ Calls("query") = {}
    /\ (attempts # <<>> /\ attempts[1].kind # "none") =>
         /\ Cardinality(Calls("queryWithVision")) = 1
         /\ \A q \in Calls("queryWithVision") : \A g \in GestureIndices : q < g

\* vision switched off in the options, pureVisionOnly set: one tier-4
\* decision, its tap sent, the step recorded as pure-vision
C38_Witness ==
  /\ PureVisionOnlyVisionOff
  /\ config.enabled = "false"
  /\ ExecuteDispatched
  /\ attempts = <<Attempt("tier4", "json", 0)>>
  /\ Calls("queryWithVision") # {}
  /\ Calls("tap") # {}
  /\ LastStep.success
  /\ LastStep.method = PURE_VISION

\* the mobile_execute call being handled, or handled last, omitted visionMode
\* and got as far as the agent's execute
ExecuteWithoutVisionMode ==
  /\ mcp.tool = "mobile_execute"
  /\ mcp.step \in {"await", "idle"}
  /\ mcp.agentCalled
  /\ mcp.visionMode = Undefined

\* C36: a mobile_execute call that omits visionMode runs in auto mode, the
\* four-tier cascade starting at tier 1, whatever visionMode the earlier
\* mobile_execute calls specified.
C36_OmittedVisionModeIsAuto ==
  (ExecuteWithoutVisionMode /\ mcp.modeFromExecute) =>
    /\ ~visionConfig.pureVisionOnly
    /\ attempts # <<>> => attempts[1].tier = "tier1"

\* after a mobile_execute call with "pure-vision-only", a call without
\* visionMode runs tier 4 only and dispatches its decision
C36_Witness ==
  /\ ExecuteWithoutVisionMode
  /\ mcp.modeFromExecute
  /\ mcp.step = "idle"
  /\ visionConfig.pureVisionOnly
  /\ attempts = <<Attempt("tier4", "json", 0)>>
  /\ Calls("query") = {}
  /\ Len(Steps) = 1
  /\ LastStep.method = PURE_VISION

\* s is an initial segment of t
IsPrefix(s, t) == Len(s) <= Len(t) /\ \A i \in DOMAIN s : t[i] = s[i]

\* the step taken is a call of startSession
StartSessionStep == result'.op = "startSession"

\* the step taken ends an execute, returning or throwing
ExecuteCompletes == pc \in Tiers /\ pc' \notin Tiers

\* the step taken is an assert, which returns within it
AssertCompletes == result'.op = "assert"

\* C35: between two startSession calls the step and verification histories
\* are append-only and ordered by invocation: execute, assert,
\* waitForCondition and stopSession never remove, reorder or overwrite an
\* entry, and the k-th execute / assert to complete produces the k-th step /
\* verification: each completion appends exactly one entry and nothing else
\* appends.
C35_HistoriesAppendOnly ==
  [][(HasSession(testResult) /\ ~StartSessionStep) =>
       /\ HasSession(testResult')
       /\ IsPrefix(Steps, testResult'[1].steps)
       /\ IsPrefix(VerificationResults, testResult'[1].verificationResults)
       /\ Len(testResult'[1].steps) = Len(Steps) + (IF ExecuteCompletes THEN 1 ELSE 0)
       /\ Len(testResult'[1].verificationResults) =
            Len(VerificationResults) + (IF AssertCompletes THEN 1 ELSE 0)]_vars

\* a session stopped after two executes and two asserts: the step of the
\* execute that threw at tier 1 comes before the step tier 4 dispatched, and
\* the failed verification before the passed one
C35_Witness ==
  /\ HasSession(testResult)
  /\ stopped
  /\ Len(Steps) = 2
  /\ ~Steps[1].success /\ Steps[1].method = ""
  /\ Steps[2].success /\ Steps[2].method = PURE_VISION
  /\ Len(VerificationResults) = 2
  /\ VerificationResults[1].status = FAILED
  /\ VerificationResults[2].status = PASSED

====
